---- MODULE Spec2Model ----
(***************************************************************************)
(* The Sarvam provider for the AI SDK: the stream-chunk accumulator of     *)
(* SarvamChatLanguageModel.doStream (src/src/chat/model.ts), which turns   *)
(* the parsed SSE chunks of a chat completion into                         *)
(* LanguageModelV3StreamPart events, and the single-shot operations around *)
(* it: mapSarvamFinishReason, convertToSarvamChatMessages, the chat        *)
(* model's getArgs and doGenerate, and the speech model's getArgs.         *)
(*                                                                         *)
(* Conventions.  A JavaScript string is a sequence of text units, each a   *)
(* character or a run of characters the code never splits (so "" is <<>>   *)
(* and concatenation is \o).  A nullish value (null or undefined) is       *)
(* None == <<>> and a present value v is Some(v) == <<v>>.  Ids, tool      *)
(* names, finish reasons and format names are never taken apart by the     *)
(* code and are kept as atoms.                                             *)
(***************************************************************************)
EXTENDS Integers, Sequences, FiniteSets, TLC

VARIABLES
    toolCalls,         \* model.ts:294  sparse array index -> accumulated tool call
    finishReason,      \* model.ts:304
    usage,             \* model.ts:305
    isFirstChunk,      \* model.ts:309
    textStarted,       \* model.ts:310
    reasoningStarted,  \* model.ts:311
    textId,            \* model.ts:312
    reasoningId,       \* model.ts:313
    events,            \* every part handed to controller.enqueue, in order
    received,          \* the chunks the response stream has delivered to transform
    pc,                \* "open" | "closed" (flush ran) | "errored" (transform threw)
    call,              \* the call being served: its operation, settings and inputs
    result,            \* what a single-shot call returned or threw; Pending until then
    other              \* the closure state (model.ts:294-313) of a second doStream
                       \* call on the same model instance; the variables above are
                       \* those of the call whose handler the runtime runs

streamVars == <<toolCalls, finishReason, usage, isFirstChunk, textStarted,
                reasoningStarted, textId, reasoningId, events, received, pc>>

vars == <<streamVars, call, result, other>>

\* Chunks one stream delivers before the upstream closes.
MaxChunks == 3

----------------------------------------------------------------------------
(* Nullish values *)

None == <<>>
Some(v) == <<v>>

\* x ?? d
OrElse(x, d) == IF x = None THEN d ELSE x[1]

\* the outcome of a call: it has not settled, it returned, or it threw
Pending == [state |-> "pending"]
Returned(v) == [state |-> "returned", value |-> v]
Threw(e) == [state |-> "threw", error |-> e]

----------------------------------------------------------------------------
(* isParsableJson of @ai-sdk/provider-utils: JSON.parse succeeds.  The     *)
(* texts of the model are over the characters "[", "]", "," and "1"; of    *)
(* the JSON grammar that leaves   value ::= number | array,                *)
(* number ::= "1"+,  array ::= "[" "]" | "[" value ("," value)* "]".       *)
(* ParseValue(s, i) is the position after the value that starts at i, or   *)
(* 0 when no value starts there.                                           *)

RECURSIVE SkipDigits(_, _)
SkipDigits(s, i) ==
    IF i <= Len(s) /\ s[i] = "1" THEN SkipDigits(s, i + 1) ELSE i

RECURSIVE ParseValue(_, _)
RECURSIVE ParseElements(_, _)
ParseValue(s, i) ==
    IF i > Len(s) THEN 0
    ELSE IF s[i] = "1" THEN SkipDigits(s, i)
    ELSE IF s[i] = "[" THEN
        IF i + 1 <= Len(s) /\ s[i + 1] = "]" THEN i + 2
        ELSE ParseElements(s, ParseValue(s, i + 1))
    ELSE 0

\* after one element of an array: "]" ends it, "," asks for another element
ParseElements(s, j) ==
    IF j = 0 \/ j > Len(s) THEN 0
    ELSE IF s[j] = "]" THEN j + 1
    ELSE IF s[j] = "," THEN ParseElements(s, ParseValue(s, j + 1))
    ELSE 0

isParsableJson(s) == ParseValue(s, 1) = Len(s) + 1

----------------------------------------------------------------------------
(* mapSarvamFinishReason *)

\* faulty variant: the function_call case is missing from the switch
mapSarvamFinishReason_NoFunctionCall(fr) ==
    IF fr = Some("stop") THEN [unified |-> "stop", raw |-> fr]
    ELSE IF fr = Some("length") THEN [unified |-> "length", raw |-> fr]
    ELSE IF fr = Some("content_filter") THEN [unified |-> "content-filter", raw |-> fr]
    ELSE IF fr = Some("tool_calls") THEN [unified |-> "tool-calls", raw |-> fr]
    ELSE [unified |-> "other", raw |-> fr]

mapSarvamFinishReason(fr) ==
    IF fr = Some("stop") THEN [unified |-> "stop", raw |-> fr]
    ELSE IF fr = Some("length") THEN [unified |-> "length", raw |-> fr]
    ELSE IF fr = Some("content_filter") THEN [unified |-> "content-filter", raw |-> fr]
    ELSE IF fr = Some("function_call") \/ fr = Some("tool_calls")
        THEN [unified |-> "tool-calls", raw |-> fr]
    ELSE [unified |-> "other", raw |-> fr]

----------------------------------------------------------------------------
(* JSON.stringify and Buffer.toString("base64"), as the message converter   *)
(* uses them.  A JSON value is a record with one field: num (a natural),    *)
(* str (a text), arr (a sequence of values) or obj (a sequence of members   *)
(* [key, value] in insertion order).  Texts hold no character that          *)
(* JSON.stringify would escape.                                             *)

JNum(n) == [num |-> n]
JStr(s) == [str |-> s]
JArr(items) == [arr |-> items]
JObj(members) == [obj |-> members]

DecimalDigit == <<"0", "1", "2", "3", "4", "5", "6", "7", "8", "9">>

RECURSIVE Decimal(_)
Decimal(n) ==
    IF n < 10 THEN <<DecimalDigit[n + 1]>>
    ELSE Decimal(n \div 10) \o <<DecimalDigit[(n % 10) + 1]>>

RECURSIVE Stringify(_)
RECURSIVE StringifyItems(_)
RECURSIVE StringifyMembers(_)
Stringify(v) ==
    IF "num" \in DOMAIN v THEN Decimal(v.num)
    ELSE IF "str" \in DOMAIN v THEN <<"\"">> \o v.str \o <<"\"">>
    ELSE IF "arr" \in DOMAIN v THEN <<"[">> \o StringifyItems(v.arr) \o <<"]">>
    ELSE <<"{">> \o StringifyMembers(v.obj) \o <<"}">>

StringifyItems(items) ==
    IF items = <<>> THEN <<>>
    ELSE IF Len(items) = 1 THEN Stringify(items[1])
    ELSE Stringify(items[1]) \o <<",">> \o StringifyItems(Tail(items))

StringifyMembers(members) ==
    IF members = <<>> THEN <<>>
    ELSE LET m == members[1]
             one == <<"\"">> \o m.key \o <<"\"", ":">> \o Stringify(m.value)
         IN  IF Len(members) = 1 THEN one
             ELSE one \o <<",">> \o StringifyMembers(Tail(members))

Base64Alphabet ==
    <<"A", "B", "C", "D", "E", "F", "G", "H", "I", "J", "K", "L", "M",
      "N", "O", "P", "Q", "R", "S", "T", "U", "V", "W", "X", "Y", "Z",
      "a", "b", "c", "d", "e", "f", "g", "h", "i", "j", "k", "l", "m",
      "n", "o", "p", "q", "r", "s", "t", "u", "v", "w", "x", "y", "z",
      "0", "1", "2", "3", "4", "5", "6", "7", "8", "9", "+", "/">>

Sextet(n) == Base64Alphabet[(n % 64) + 1]

\* Buffer.from(bytes).toString("base64"): three bytes give four characters,
\* a last group of one or two bytes is padded with "="
RECURSIVE Base64(_)
Base64(bytes) ==
    IF bytes = <<>> THEN <<>>
    ELSE IF Len(bytes) = 1 THEN
        LET n == bytes[1] * 16
        IN  <<Sextet(n \div 64), Sextet(n), "=", "=">>
    ELSE IF Len(bytes) = 2 THEN
        LET n == (bytes[1] * 256 + bytes[2]) * 4
        IN  <<Sextet(n \div 4096), Sextet(n \div 64), Sextet(n), "=">>
    ELSE
        LET n == bytes[1] * 65536 + bytes[2] * 256 + bytes[3]
        IN  <<Sextet(n \div 262144), Sextet(n \div 4096), Sextet(n \div 64),
              Sextet(n)>> \o Base64(SubSeq(bytes, 4, Len(bytes)))

----------------------------------------------------------------------------
(* convertToSarvamChatMessages *)

StartsWith(s, prefix) ==
    Len(s) >= Len(prefix) /\ SubSeq(s, 1, Len(prefix)) = prefix

\* a content that is a string in one place and an array in another: both are
\* sequences here, so the value says which of the two it is
StringContent(s) == [string |-> s]
ArrayContent(entries) == [array |-> entries]

SystemMessage(content, fakeToolSystemPrompt) ==
    [role |-> "system",
     content |-> IF fakeToolSystemPrompt # None /\ fakeToolSystemPrompt[1] # <<>>
                 THEN content \o <<"\n\n">> \o fakeToolSystemPrompt[1]
                 ELSE content]

UnsupportedFilePart(part) ==
    part.type = "file" /\ ~StartsWith(part.mediaType, <<"image/">>)

ImageUrl(part) ==
    IF part.data.kind = "URL" THEN part.data.href
    ELSE LET base64 == IF part.data.kind = "string" THEN part.data.value
                       ELSE Base64(part.data.bytes)
         IN  <<"data:">> \o part.mediaType \o <<";base64,">> \o base64

UserEntry(part) ==
    IF part.type = "text" THEN [type |-> "text", text |-> part.text]
    ELSE [type |-> "image_url", image_url |-> [url |-> ImageUrl(part)]]

\* faulty variant: a single text part is sent as an array too
UserMessage_AlwaysArray(content) ==
    [role |-> "user",
     content |-> ArrayContent([j \in 1..Len(content) |-> UserEntry(content[j])])]

UserMessage(content) ==
    IF Len(content) = 1 /\ content[1].type = "text"
    THEN [role |-> "user", content |-> StringContent(content[1].text)]
    ELSE [role |-> "user",
          content |-> ArrayContent([j \in 1..Len(content) |-> UserEntry(content[j])])]

RECURSIVE AssistantText(_)
AssistantText(content) ==
    IF content = <<>> THEN <<>>
    ELSE (IF content[1].type = "text" THEN content[1].text ELSE <<>>)
         \o AssistantText(Tail(content))

\* faulty variant: the tool calls are collected in reverse order
RECURSIVE AssistantToolCalls_Reversed(_)
AssistantToolCalls_Reversed(content) ==
    IF content = <<>> THEN <<>>
    ELSE AssistantToolCalls_Reversed(Tail(content))
         \o (IF content[1].type = "tool-call"
             THEN <<[id |-> content[1].toolCallId, type |-> "function",
                     function |-> [name |-> content[1].toolName,
                                   arguments |-> Stringify(content[1].input)]]>>
             ELSE <<>>)

RECURSIVE AssistantToolCalls(_)
AssistantToolCalls(content) ==
    IF content = <<>> THEN <<>>
    ELSE (IF content[1].type = "tool-call"
          THEN <<[id |-> content[1].toolCallId, type |-> "function",
                  function |-> [name |-> content[1].toolName,
                                arguments |-> Stringify(content[1].input)]]>>
          ELSE <<>>)
         \o AssistantToolCalls(Tail(content))

AssistantMessage(content) ==
    LET toolCalls_ == AssistantToolCalls(content)
    IN  [role |-> "assistant",
         content |-> AssistantText(content),
         tool_calls |-> IF Len(toolCalls_) > 0 THEN Some(toolCalls_) ELSE None]

\* The value of a tool output is held as a JSON value whatever the output's
\* type; for text and error-text it is a JSON string.
\* JSON.stringify(output) of an output the switch does not name
OutputAsJson(output) ==
    JObj(<<[key |-> <<"type">>, value |-> JStr(<<output.type>>)],
           [key |-> <<"value">>, value |-> output.value]>>)

ToolContent(output) ==
    IF output.type \in {"text", "error-text"} THEN output.value.str
    ELSE IF output.type \in {"json", "error-json"} THEN Stringify(output.value)
    ELSE IF output.type = "execution-denied"
        THEN OrElse(output.reason, <<"Tool execution denied">>)
    ELSE Stringify(OutputAsJson(output))

RECURSIVE ToolMessages(_)
ToolMessages(content) ==
    IF content = <<>> THEN <<>>
    ELSE (IF content[1].type # "tool-result" THEN <<>>
          ELSE <<[role |-> "tool",
                  tool_call_id |-> content[1].toolCallId,
                  content |-> ToolContent(content[1].output)]>>)
         \o ToolMessages(Tail(content))

\* the messages one turn pushes
TurnMessages(turn, fakeToolSystemPrompt) ==
    IF turn.role = "system" THEN <<SystemMessage(turn.content.string, fakeToolSystemPrompt)>>
    ELSE IF turn.role = "user" THEN <<UserMessage(turn.content.array)>>
    ELSE IF turn.role = "assistant" THEN <<AssistantMessage(turn.content.array)>>
    ELSE ToolMessages(turn.content.array)

\* the error a turn makes the conversion throw, None when it throws nothing
TurnError(turn) ==
    IF turn.role = "user" THEN
        IF ~(Len(turn.content.array) = 1 /\ turn.content.array[1].type = "text")
           /\ \E j \in 1..Len(turn.content.array) :
                  UnsupportedFilePart(turn.content.array[j])
        THEN Some("UnsupportedFunctionalityError")
        ELSE None
    ELSE IF turn.role \in {"system", "assistant", "tool"} THEN None
    ELSE Some("Error")

RECURSIVE convertToSarvamChatMessages(_, _)
convertToSarvamChatMessages(prompt, fakeToolSystemPrompt) ==
    IF prompt = <<>> THEN Returned(<<>>)
    ELSE IF TurnError(prompt[1]) # None THEN Threw(TurnError(prompt[1])[1])
    ELSE LET rest == convertToSarvamChatMessages(Tail(prompt), fakeToolSystemPrompt)
         IN  IF rest.state = "threw" THEN rest
             ELSE Returned(TurnMessages(prompt[1], fakeToolSystemPrompt) \o rest.value)

----------------------------------------------------------------------------
(* ./prepare-tools: prepareTools, simulateToolCalling, simulateJsonSchema,  *)
(* parseJSON and extractToolCallData, after the description of the          *)
(* tool-call preparer and of simulated tool-calling.                        *)

\* the instruction simulateToolCalling returns, as one text
ToolCallingInstruction == <<"Reply with a JSON tool call">>

\* the instruction simulateJsonSchema returns
JsonInstruction == <<"Reply with a JSON object">>

simulateToolCalling(sarvamTools) == ToolCallingInstruction

simulateJsonSchema == JsonInstruction

RECURSIVE FunctionTools(_)
FunctionTools(tools) ==
    IF tools = <<>> THEN <<>>
    ELSE (IF tools[1].type = "function"
          THEN <<[type |-> "function",
                  function |-> [name |-> tools[1].name,
                                parameters |-> tools[1].inputSchema]]>>
          ELSE <<>>)
         \o FunctionTools(Tail(tools))

RECURSIVE ToolWarnings(_)
ToolWarnings(tools) ==
    IF tools = <<>> THEN <<>>
    ELSE (IF tools[1].type = "function" THEN <<>>
          ELSE <<[type |-> "unsupported", feature |-> "tool", details |-> tools[1].id]>>)
         \o ToolWarnings(Tail(tools))

ToolChoice(toolChoice) ==
    IF toolChoice = None THEN None
    ELSE IF toolChoice[1].type = "tool"
        THEN Some([type |-> "function", function |-> [name |-> toolChoice[1].toolName]])
    ELSE Some([mode |-> toolChoice[1].type])

\* no tools, or an empty list of them, leaves tools and tool_choice out
prepareTools(tools, toolChoice) ==
    IF tools = None \/ tools[1] = <<>>
    THEN [tools |-> None, tool_choice |-> None, toolWarnings |-> <<>>]
    ELSE [tools |-> Some(FunctionTools(tools[1])),
          tool_choice |-> ToolChoice(toolChoice),
          toolWarnings |-> ToolWarnings(tools[1])]

\* the JSON values a response text of the model can spell
CityCall ==
    JObj(<<[key |-> <<"name">>, value |-> JStr(<<"weather">>)],
           [key |-> <<"arguments">>, value |-> JObj(<<[key |-> <<"city">>,
                                                     value |-> JStr(<<"Pune">>)]>>)]>>)

JsonValues ==
    {CityCall, JArr(<<JNum(1), JNum(1)>>),
     JObj(<<[key |-> <<"city">>, value |-> JStr(<<"Pune">>)]>>)}

\* a text without the blanks between its JSON tokens
Compact(text) == SelectSeq(text, LAMBDA c : c # " ")

\* parseJSON: the value the text spells, None when it spells none
parseJSON(text) ==
    IF \E v \in JsonValues : Stringify(v) = Compact(text)
    THEN Some(CHOOSE v \in JsonValues : Stringify(v) = Compact(text))
    ELSE None

HasMember(object, key) ==
    \E k \in 1..Len(object.obj) : object.obj[k].key = key

Member(object, key) ==
    object.obj[CHOOSE k \in 1..Len(object.obj) : object.obj[k].key = key].value

\* extractToolCallData: the recognizable shape is an object with a name and
\* arguments; the call gets a generated id
extractToolCallData(jsonObject) ==
    IF /\ "obj" \in DOMAIN jsonObject
       /\ HasMember(jsonObject, <<"name">>)
       /\ HasMember(jsonObject, <<"arguments">>)
       /\ "str" \in DOMAIN Member(jsonObject, <<"name">>)
    THEN Some([toolCallId |-> "gen-3",
               toolName |-> Member(jsonObject, <<"name">>).str,
               input |-> Stringify(Member(jsonObject, <<"arguments">>))])
    ELSE None

----------------------------------------------------------------------------
(* SarvamChatLanguageModel.getArgs *)

StreamingWarning ==
    [type |-> "other", message |-> "Streaming is still experimental for Sarvam"]

TopKWarning == [type |-> "unsupported", feature |-> "topK"]

SchemaWarning ==
    [type |-> "unsupported", feature |-> "responseFormat",
     details |-> "JSON response format schema is not supported"]

IsJson(responseFormat) == responseFormat # None /\ responseFormat[1].type = "json"

OwnWarnings(options, stream) ==
    (IF stream THEN <<StreamingWarning>> ELSE <<>>)
    \o (IF options.topK # None THEN <<TopKWarning>> ELSE <<>>)
    \o (IF IsJson(options.responseFormat) /\ options.responseFormat[1].schema # None
        THEN <<SchemaWarning>> ELSE <<>>)

\* sarvamTools is truthy whenever it is an array, the empty array included
ExtraSystemPrompt(settings, options, sarvamTools) ==
    IF sarvamTools # None /\ settings.simulate = Some("tool-calling")
        THEN Some(simulateToolCalling(sarvamTools[1]))
    ELSE IF IsJson(options.responseFormat) /\ settings.simulate = Some("json-object")
        THEN Some(simulateJsonSchema)
    ELSE None

\* faulty variant: the json response format is sent on streaming calls too
ResponseFormat_AnyCall(options, stream) ==
    IF IsJson(options.responseFormat) THEN Some([type |-> "json_object"]) ELSE None

ResponseFormat(options, stream) ==
    IF stream = FALSE /\ IsJson(options.responseFormat)
    THEN Some([type |-> "json_object"])
    ELSE None

\* The request body; a field that is undefined, which JSON.stringify leaves
\* out of the request, is None.
getArgs(modelId, settings, options, stream) ==
    LET prepared == prepareTools(options.tools, options.toolChoice)
        extraSystemPrompt == ExtraSystemPrompt(settings, options, prepared.tools)
        messages == convertToSarvamChatMessages(options.prompt, extraSystemPrompt)
    IN  IF messages.state = "threw" THEN messages
        ELSE Returned(
            [args |->
                [model |-> modelId,
                 messages |-> messages.value,
                 user |-> settings.user,
                 parallel_tool_calls |-> settings.parallelToolCalls,
                 max_tokens |-> options.maxOutputTokens,
                 temperature |-> options.temperature,
                 top_p |-> options.topP,
                 frequency_penalty |-> options.frequencyPenalty,
                 presence_penalty |-> options.presencePenalty,
                 stop |-> options.stopSequences,
                 seed |-> options.seed,
                 response_format |-> ResponseFormat(options, stream),
                 reasoning_format |->
                     IF options.providerOptions = None THEN None
                     ELSE options.providerOptions[1].reasoningFormat,
                 tools |-> prepared.tools,
                 tool_choice |-> prepared.tool_choice],
             warnings |-> OwnWarnings(options, stream) \o prepared.toolWarnings])

----------------------------------------------------------------------------
(* SarvamChatLanguageModel.doGenerate and the request of doStream *)

\* the tool-call parts of the response's tool_calls; None without tool_calls
NativeToolCalls(message) ==
    IF message.tool_calls = None THEN None
    ELSE Some([k \in 1..Len(message.tool_calls[1]) |->
                  LET toolCall == message.tool_calls[1][k] IN
                  [type |-> "tool-call",
                   toolCallId |-> OrElse(toolCall.id, "gen-3"),
                   toolName |-> toolCall.function.name,
                   input |-> toolCall.function.arguments]])

\* the tool call parsed out of the text under simulate = tool-calling
SimulatedToolCall(settings, text) ==
    IF settings.simulate = Some("tool-calling") /\ text # None /\ text[1] # <<>>
    THEN LET jsonObject == parseJSON(text[1]) IN
         IF jsonObject = None THEN None ELSE extractToolCallData(jsonObject[1])
    ELSE None

\* text after both simulation steps; None is undefined
GeneratedText(settings, message) ==
    LET text == message.content
        afterTools == IF SimulatedToolCall(settings, text) # None THEN None ELSE text
    IN  IF settings.simulate = Some("json-object")
           /\ afterTools # None /\ afterTools[1] # <<>>
           /\ parseJSON(afterTools[1]) # None
        THEN Some(Stringify(parseJSON(afterTools[1])[1]))
        ELSE afterTools

\* faulty variant: the simulated call is added to the native tool_calls
GeneratedToolCalls_KeepsNative(settings, message) ==
    LET newTool == SimulatedToolCall(settings, message.content)
        native == NativeToolCalls(message)
    IN  IF newTool # None
        THEN Some((IF native = None THEN <<>> ELSE native[1])
                  \o <<[type |-> "tool-call", toolCallId |-> newTool[1].toolCallId,
                        toolName |-> newTool[1].toolName, input |-> newTool[1].input]>>)
        ELSE native

GeneratedToolCalls(settings, message) ==
    LET newTool == SimulatedToolCall(settings, message.content) IN
    IF newTool # None
    THEN Some(<<[type |-> "tool-call", toolCallId |-> newTool[1].toolCallId,
                 toolName |-> newTool[1].toolName, input |-> newTool[1].input]>>)
    ELSE NativeToolCalls(message)

\* faulty variant: the text is pushed before the reasoning
GeneratedContent_TextFirst(settings, message) ==
    LET text == GeneratedText(settings, message)
        toolCalls_ == GeneratedToolCalls(settings, message)
    IN  (IF text # None /\ text[1] # <<>>
         THEN <<[type |-> "text", text |-> text[1]]>> ELSE <<>>)
        \o (IF message.reasoning # None /\ message.reasoning[1] # <<>>
            THEN <<[type |-> "reasoning", text |-> message.reasoning[1]]>> ELSE <<>>)
        \o (IF toolCalls_ # None THEN toolCalls_[1] ELSE <<>>)

GeneratedContent(settings, message) ==
    LET text == GeneratedText(settings, message)
        toolCalls_ == GeneratedToolCalls(settings, message)
    IN  (IF message.reasoning # None /\ message.reasoning[1] # <<>>
         THEN <<[type |-> "reasoning", text |-> message.reasoning[1]]>> ELSE <<>>)
        \o (IF text # None /\ text[1] # <<>>
            THEN <<[type |-> "text", text |-> text[1]]>> ELSE <<>>)
        \o (IF toolCalls_ # None THEN toolCalls_[1] ELSE <<>>)

GeneratedUsage(response) ==
    [inputTokens |-> [total |-> IF response.usage = None THEN None
                                ELSE response.usage[1].prompt_tokens,
                      noCache |-> None, cacheRead |-> None, cacheWrite |-> None],
     outputTokens |-> [total |-> IF response.usage = None THEN None
                                 ELSE response.usage[1].completion_tokens,
                       text |-> None, reasoning |-> None]]

doGenerate(modelId, settings, options, response) ==
    LET prepared == getArgs(modelId, settings, options, FALSE) IN
    IF prepared.state = "threw" THEN prepared
    ELSE LET choice == response.choices[1] IN
         Returned([content |-> GeneratedContent(settings, choice.message),
                   finishReason |-> mapSarvamFinishReason(choice.finish_reason),
                   usage |-> GeneratedUsage(response),
                   request |-> [body |-> prepared.value.args],
                   warnings |-> prepared.value.warnings])

\* { ...args, stream: true }
WithStream(args) == args @@ [stream |-> TRUE]

\* doStream up to the request it posts and the warnings its stream-start
\* will carry
doStreamRequest(modelId, settings, options) ==
    LET prepared == getArgs(modelId, settings, options, TRUE) IN
    IF prepared.state = "threw" THEN prepared
    ELSE Returned([request |-> [body |-> WithStream(prepared.value.args)],
                   warnings |-> prepared.value.warnings])

----------------------------------------------------------------------------
(* SarvamSpeechModel.getArgs.  Numbers of the speech options are held in    *)
(* hundredths (a pitch of 0.5 is 50), the sample rate in hertz.             *)

Speakers ==
    {"anushka", "abhilash", "manisha", "vidya", "arya", "karun", "hitesh",
     "aditya", "ritu", "priya", "neha", "rahul", "pooja", "rohan", "simran",
     "kavya", "amit", "dev", "ishita", "shreya", "ratan", "varun", "manan",
     "sumit", "roopa", "kabir", "aayan", "shubh", "ashutosh", "advait",
     "amelia", "sophia", "anand", "tanya", "tarun", "sunny", "mani", "gokul",
     "vijay", "shruti", "suhani", "mohit", "kavitha", "rehan", "soham",
     "rupali"}

AudioCodecs == {"mp3", "linear16", "mulaw", "alaw", "opus", "flac", "aac", "wav"}

SpeechOptionKeys ==
    {"speaker", "pitch", "pace", "loudness", "speech_sample_rate",
     "enable_preprocessing", "output_audio_codec", "temperature"}

\* the keys copied into the request body, in the order of the loop
OptionalKeys ==
    <<"pitch", "pace", "loudness", "speech_sample_rate",
      "enable_preprocessing", "output_audio_codec", "temperature">>

NoSpeechOptions == [key \in SpeechOptionKeys |-> None]

\* { ...providerOptions?.sarvam, ...this.config.speech }
Spread(under, over) ==
    [key \in SpeechOptionKeys |-> IF over[key] # None THEN over[key] ELSE under[key]]

ValidSpeechOptions(o) ==
    /\ o.speaker # None => o.speaker[1] \in Speakers
    /\ o.pitch # None => (o.pitch[1] >= -75 /\ o.pitch[1] <= 75)
    /\ o.pace # None => (o.pace[1] >= 50 /\ o.pace[1] <= 200)
    /\ o.loudness # None => (o.loudness[1] >= 30 /\ o.loudness[1] <= 300)
    /\ o.output_audio_codec # None => o.output_audio_codec[1] \in AudioCodecs

SchemaDefaults ==
    [NoSpeechOptions EXCEPT !.speaker = Some("anushka"), !.pitch = Some(0),
                            !.pace = Some(100), !.loudness = Some(100),
                            !.speech_sample_rate = Some(22050),
                            !.enable_preprocessing = Some(FALSE)]

\* SarvamProviderOptionsSchema is a partial object whose fields have
\* defaults: whether a missing field comes back missing or as its default
\* depends on the zod release the build resolves, so the call says which.
ParsedSpeechOptions(o, defaultsApplied) ==
    IF defaultsApplied THEN Spread(SchemaDefaults, o) ELSE o

GetSpeaker(modelId, sarvamOptions, voice) ==
    IF sarvamOptions.speaker # None THEN Returned(sarvamOptions.speaker[1])
    ELSE IF voice # None /\ voice[1] # ""
        THEN IF voice[1] \in Speakers THEN Returned(voice[1]) ELSE Threw("ZodError")
    ELSE IF modelId = "bulbul:v2" THEN Returned("manisha")
    ELSE IF modelId = "bulbul:v3" THEN Returned("anushka")
    ELSE Returned("anushka")

SupportedFormats == {"mp3", "opus", "aac", "flac", "wav", "pcm"}

\* faulty variant: the warning is skipped and the format passed through
SpeechResponseFormat_PassThrough(outputFormat) ==
    IF outputFormat # "" THEN Some(outputFormat) ELSE None

\* requestBody.response_format; None when the key is not set
SpeechResponseFormat(outputFormat) ==
    IF outputFormat # "" /\ outputFormat \in SupportedFormats
    THEN Some(outputFormat)
    ELSE None

SpeechWarnings(outputFormat) ==
    IF outputFormat # "" /\ outputFormat \notin SupportedFormats
    THEN <<[type |-> "unsupported", feature |-> "outputFormat",
            details |-> <<"Unsupported output format: ", outputFormat,
                          ". Using mp3 instead.">>]>>
    ELSE <<>>

speechGetArgs(modelId, languageCode, config, options) ==
    LET outputFormat == OrElse(options.outputFormat, "wav")
        merged == Spread(options.providerOptions, config.speech)
    IN  IF ~ValidSpeechOptions(merged) THEN Threw("InvalidArgumentError")
        ELSE LET sarvamOptions == ParsedSpeechOptions(merged, config.defaultsApplied)
                 speaker == GetSpeaker(modelId, sarvamOptions, options.voice)
             IN  IF speaker.state = "threw" THEN speaker
                 ELSE Returned(
                     [requestBody |->
                         [key \in {"model", "text", "target_language_code", "speaker",
                                   "response_format"}
                                  \cup {OptionalKeys[k] : k \in 1..Len(OptionalKeys)} |->
                             CASE key = "model" -> Some(modelId)
                               [] key = "text" -> Some(options.text)
                               [] key = "target_language_code" -> Some(languageCode)
                               [] key = "speaker" -> Some(speaker.value)
                               [] key = "response_format" ->
                                      SpeechResponseFormat(outputFormat)
                               [] OTHER -> sarvamOptions[key]],
                      warnings |-> SpeechWarnings(outputFormat)])

----------------------------------------------------------------------------
(* SarvamTranslationModel: getArgs and doGenerate.  The outcome of a       *)
(* doGenerate call is held with the HTTP requests the call has made.       *)

\* The settings are held as nullish values, the required target language
\* included, so that from === to compares like with like.

\* this.modelId = settings.model ?? "mayura:v1"
TranslationModelId(settings) == OrElse(settings.model, "mayura:v1")

\* faulty variant: the mode and the source are checked for every model
ConfigurationError_AnyModel(settings) ==
    IF settings.from = settings.to
    THEN Some("Source and target languages code must be different.")
    ELSE IF OrElse(settings.mode, "formal") # "formal"
    THEN Some("Sarvam 'sarvam-translate:v1' only support mode formal.")
    ELSE IF OrElse(settings.from, "auto") = "auto"
    THEN Some("Sarvam 'sarvam-translate:v1' requires source language code.")
    ELSE None

\* the message a configuration makes getArgs throw, None when it is accepted
ConfigurationError(settings) ==
    IF settings.from = settings.to
    THEN Some("Source and target languages code must be different.")
    ELSE IF TranslationModelId(settings) = "sarvam-translate:v1"
            /\ OrElse(settings.mode, "formal") # "formal"
    THEN Some("Sarvam 'sarvam-translate:v1' only support mode formal.")
    ELSE IF TranslationModelId(settings) = "sarvam-translate:v1"
            /\ OrElse(settings.from, "auto") = "auto"
    THEN Some("Sarvam 'sarvam-translate:v1' requires source language code.")
    ELSE None

\* String(content) as Array.prototype.join renders one message content: a
\* string as itself, an array of entries as its entries joined by commas
RECURSIVE ObjectList(_)
ObjectList(n) ==
    IF n = 0 THEN <<>>
    ELSE IF n = 1 THEN <<"[object Object]">>
    ELSE <<"[object Object]", ",">> \o ObjectList(n - 1)

ContentText(content) ==
    IF "string" \in DOMAIN content THEN content.string
    ELSE ObjectList(Len(content.array))

\* messages.filter((m) => m.role === "user").map((m) => m.content).join("\n")
RECURSIVE JoinLines(_)
JoinLines(texts) ==
    IF texts = <<>> THEN <<>>
    ELSE IF Len(texts) = 1 THEN texts[1]
    ELSE texts[1] \o <<"\n">> \o JoinLines(Tail(texts))

TranslationInput(messages) ==
    LET IsUser(m) == m.role = "user"
        users == SelectSeq(messages, IsUser)
    IN JoinLines([k \in 1..Len(users) |-> ContentText(users[k].content)])

translationGetArgs(settings, prompt) ==
    IF ConfigurationError(settings) # None THEN Threw(ConfigurationError(settings)[1])
    ELSE LET converted == convertToSarvamChatMessages(prompt, None) IN
         IF converted.state = "threw" THEN converted
         ELSE Returned(
                [messages |-> converted.value,
                 args |-> [input |-> TranslationInput(converted.value),
                           source_language_code |-> OrElse(settings.from, "auto"),
                           target_language_code |-> settings.to[1],
                           numerals_format |->
                               OrElse(settings.numerals_format, "international"),
                           enable_preprocessing |->
                               OrElse(settings.enable_preprocessing, FALSE),
                           output_script |-> settings.output_script,
                           speaker_gender |-> OrElse(settings.speaker_gender, "Male"),
                           mode |-> OrElse(settings.mode, "formal"),
                           model |-> TranslationModelId(settings)],
                 warnings |-> <<>>])

\* the usage doGenerate reports: nothing is known
InitialTranslationUsage ==
    [inputTokens |-> [total |-> None, noCache |-> None, cacheRead |-> None,
                      cacheWrite |-> None],
     outputTokens |-> [total |-> None, text |-> None, reasoning |-> None]]

\* postJsonToApi({ url: url({ path: "/translate" }), body: args, ... })
TranslatePost(args) == [method |-> "POST", path |-> "/translate", body |-> args]

\* the content built from response.translated_text
TranslatedContent(response) ==
    IF response.translated_text # None /\ response.translated_text[1] # <<>>
    THEN <<[type |-> "text", text |-> response.translated_text[1]]>>
    ELSE <<>>

\* doGenerate: the outcome and the requests made.  reply is what the
\* transport gives back: a JSON body for the response schema or a failure
translationDoGenerate(settings, options, reply) ==
    LET prepared == translationGetArgs(settings, options.prompt) IN
    IF prepared.state = "threw" THEN prepared @@ [requests |-> <<>>]
    ELSE LET requests == <<TranslatePost(prepared.value.args)>> IN
         IF ~reply.ok THEN Threw("APICallError") @@ [requests |-> requests]
         ELSE Returned([content |-> TranslatedContent(reply.value),
                        finishReason |-> mapSarvamFinishReason(None),
                        usage |-> InitialTranslationUsage,
                        request |-> [body |-> prepared.value.args],
                        warnings |-> prepared.value.warnings])
              @@ [requests |-> requests]

----------------------------------------------------------------------------
(* Single-shot calls: each operation below runs once on the inputs held in
   call and leaves what it returned or threw in result.  The stream state is
   not touched by them. *)

\* the argument of mapSarvamFinishReason: string | null | undefined
FinishReasonInputs ==
    {None} \cup { Some(s) : s \in {"stop", "length", "content_filter",
                                   "function_call", "tool_calls", "error",
                                   "other", "content-filter", "tool-calls",
                                   "eos", ""} }

MapFinishReasonCalls ==
    { [op |-> "mapSarvamFinishReason", finishReason |-> fr] :
          fr \in FinishReasonInputs }

MapFinishReason ==
    /\ call.op = "mapSarvamFinishReason"
    /\ result = Pending
    /\ result' = Returned(mapSarvamFinishReason(call.finishReason))
    /\ UNCHANGED <<streamVars, call, other>>

----------------------------------------------------------------------------
(* Prompts: LanguageModelV3Prompt values of at most MaxTurns turns *)

TextPart(text) == [type |-> "text", text |-> text]
FilePart(mediaType, data) == [type |-> "file", mediaType |-> mediaType, data |-> data]
ReasoningPart(text) == [type |-> "reasoning", text |-> text]
ToolCallPart(id, name, input) ==
    [type |-> "tool-call", toolCallId |-> id, toolName |-> name, input |-> input]
ToolResultPart(id, name, output) ==
    [type |-> "tool-result", toolCallId |-> id, toolName |-> name, output |-> output]
ToolApprovalResponsePart ==
    [type |-> "tool-approval-response", approvalId |-> "approval-1", approved |-> TRUE]

UrlData == [kind |-> "URL", href |-> <<"https://", "example.com/", "cat.png">>]
StringData == [kind |-> "string", value |-> <<"A", "Q", "I", "D">>]
BytesData == [kind |-> "Uint8Array", bytes |-> <<77, 97, 110, 255>>]

Png == <<"image/", "png">>
Pdf == <<"application/", "pdf">>

\* the content of a system turn is a string, that of the other turns an array
\* of parts
SystemTurns == { [role |-> "system", content |-> StringContent(<<"Be", " ", "brief">>)] }

UserTurns ==
    { [role |-> "user", content |-> ArrayContent(c)] : c \in
        { <<>>,
          <<TextPart(<<"H", "i">>)>>,
          <<TextPart(<<>>)>>,
          <<TextPart(<<"a">>), TextPart(<<"b">>)>>,
          <<FilePart(Png, UrlData)>>,
          <<TextPart(<<"a">>), FilePart(Png, StringData)>>,
          <<FilePart(Png, BytesData), TextPart(<<"b">>)>>,
          <<FilePart(Pdf, StringData)>>,
          <<TextPart(<<"a">>), FilePart(Pdf, UrlData)>> } }

WeatherInput == JObj(<<[key |-> <<"city">>, value |-> JStr(<<"Pune">>)]>>)
ListInput == JArr(<<JNum(1), JArr(<<>>), JNum(20)>>)

AssistantTurns ==
    { [role |-> "assistant", content |-> ArrayContent(c)] : c \in
        { <<>>,
          <<TextPart(<<"a">>)>>,
          <<TextPart(<<"a">>), TextPart(<<"b">>)>>,
          <<ToolCallPart("call-1", "weather", WeatherInput)>>,
          <<TextPart(<<"a">>), ToolCallPart("call-1", "weather", WeatherInput),
            TextPart(<<"b">>), ToolCallPart("call-2", "list", ListInput)>>,
          <<ReasoningPart(<<"r">>), TextPart(<<"a">>)>> } }

ToolTurns ==
    { [role |-> "tool", content |-> ArrayContent(c)] : c \in
        { <<>>,
          <<ToolApprovalResponsePart>>,
          <<ToolResultPart("call-1", "weather", [type |-> "text", value |-> JStr(<<"s", "u", "n">>)])>>,
          <<ToolResultPart("call-1", "weather", [type |-> "json", value |-> ListInput]),
            ToolApprovalResponsePart,
            ToolResultPart("call-2", "list", [type |-> "execution-denied", reason |-> None])>>,
          <<ToolResultPart("call-1", "weather", [type |-> "error-text", value |-> JStr(<<"no">>)]),
            ToolResultPart("call-2", "list", [type |-> "error-json", value |-> WeatherInput])>>,
          <<ToolResultPart("call-2", "list",
                [type |-> "execution-denied", reason |-> Some(<<"not", " ", "now">>)])>>,
          <<ToolResultPart("call-1", "weather",
                [type |-> "content", value |-> JArr(<<JStr(<<"ok">>)>>)])>> } }

Turns == SystemTurns \cup UserTurns \cup AssistantTurns \cup ToolTurns

\* Turns of one prompt.
MaxTurns == 2

Prompts == UNION { [1..n -> Turns] : n \in 0..MaxTurns }

ConvertCalls ==
    { [op |-> "convertToSarvamChatMessages", prompt |-> p, fakeToolSystemPrompt |-> f] :
          p \in Prompts, f \in {None, Some(ToolCallingInstruction)} }

ConvertMessages ==
    /\ call.op = "convertToSarvamChatMessages"
    /\ result = Pending
    /\ result' = convertToSarvamChatMessages(call.prompt, call.fakeToolSystemPrompt)
    /\ UNCHANGED <<streamVars, call, other>>

----------------------------------------------------------------------------
(* Calls of the chat model *)

ChatSettings ==
    { [simulate |-> s, user |-> Some("test-user-id"), parallelToolCalls |-> None] :
          s \in {None, Some("tool-calling"), Some("json-object")} }

Hello == [role |-> "user", content |-> ArrayContent(<<TextPart(<<"H", "i">>)>>)]

ChatPrompts ==
    { <<Hello>>,
      <<[role |-> "system", content |-> StringContent(<<"Be", " ", "brief">>)], Hello>>,
      <<Hello, [role |-> "user",
                content |-> ArrayContent(<<FilePart(Pdf, StringData)>>)]>> }

TestTool ==
    [type |-> "function", name |-> "test-tool",
     inputSchema |-> JObj(<<[key |-> <<"type">>, value |-> JStr(<<"object">>)]>>)]

ProviderTool == [type |-> "provider", name |-> "search", id |-> "sarvam.search"]

ChatOptions ==
    { [prompt |-> p,
       maxOutputTokens |-> Some(100),
       temperature |-> None,
       topP |-> None,
       topK |-> k,
       frequencyPenalty |-> None,
       presencePenalty |-> None,
       stopSequences |-> None,
       responseFormat |-> f,
       seed |-> None,
       tools |-> t,
       toolChoice |-> c,
       providerOptions |-> Some([reasoningFormat |-> Some("hidden")])] :
          p \in ChatPrompts,
          k \in {None, Some(40)},
          f \in {None, Some([type |-> "text"]),
                 Some([type |-> "json", schema |-> None]),
                 Some([type |-> "json", schema |-> Some(WeatherInput)])},
          t \in {None, Some(<<>>), Some(<<TestTool>>), Some(<<TestTool, ProviderTool>>)},
          c \in {None, Some([type |-> "tool", toolName |-> "test-tool"])} }

NativeCall(id, name) ==
    [id |-> id, type |-> "function",
     function |-> [name |-> name,
                   arguments |-> <<"{", "\"value\"", ":", "\"Spark\"", "}">>]]

\* sarvamChatResponseSchema values
ChatResponses ==
    { [choices |-> <<[message |-> [content |-> c, reasoning |-> r, tool_calls |-> t],
                     finish_reason |-> Some("stop")]>>,
       usage |-> Some([prompt_tokens |-> Some(4), completion_tokens |-> Some(30)])] :
          c \in {None, Some(<<>>), Some(<<"H", "i">>),
                 Some(<<"[", "1", ",", " ", "1", "]">>),
                 Some(Stringify(CityCall))},
          r \in {None, Some(<<>>), Some(<<"r">>)},
          t \in {None, Some(<<NativeCall(Some("call-1"), "test-tool")>>),
                 Some(<<NativeCall(Some("call-1"), "test-tool"),
                        NativeCall(None, "list")>>)} }

ChatGenerateCalls ==
    { [op |-> "chat.doGenerate", modelId |-> "sarvam-m", settings |-> s,
       options |-> o, response |-> r] :
          s \in ChatSettings, o \in ChatOptions, r \in ChatResponses }

ChatStreamCalls ==
    { [op |-> "chat.doStream", modelId |-> "sarvam-m", settings |-> s, options |-> o] :
          s \in ChatSettings, o \in ChatOptions }

ChatDoGenerate ==
    /\ call.op = "chat.doGenerate"
    /\ result = Pending
    /\ result' = doGenerate(call.modelId, call.settings, call.options, call.response)
    /\ UNCHANGED <<streamVars, call, other>>

ChatDoStreamRequest ==
    /\ call.op = "chat.doStream"
    /\ result = Pending
    /\ result' = doStreamRequest(call.modelId, call.settings, call.options)
    /\ UNCHANGED <<streamVars, call, other>>

----------------------------------------------------------------------------
(* Calls of the speech model *)

SpeechProviderOptions ==
    { NoSpeechOptions,
      [NoSpeechOptions EXCEPT !.speaker = Some("vidya"), !.pitch = Some(50)],
      [NoSpeechOptions EXCEPT !.pitch = Some(100)] }

SpeechConfigs ==
    { [speech |-> s, defaultsApplied |-> d] :
          s \in {NoSpeechOptions, [NoSpeechOptions EXCEPT !.pace = Some(150)]},
          d \in BOOLEAN }

OutputFormats ==
    {None} \cup { Some(f) : f \in SupportedFormats \cup {"ogg", "MP3", ""} }

SpeechCalls ==
    { [op |-> "speech.getArgs", modelId |-> m, languageCode |-> "hi-IN",
       config |-> c,
       options |-> [text |-> <<"H", "i">>, voice |-> v, outputFormat |-> f,
                    providerOptions |-> p]] :
          m \in {"bulbul:v2", "bulbul:v3"}, c \in SpeechConfigs,
          v \in {None, Some("vidya"), Some("alloy")},
          f \in OutputFormats, p \in SpeechProviderOptions }

SpeechGetArgs ==
    /\ call.op = "speech.getArgs"
    /\ result = Pending
    /\ result' = speechGetArgs(call.modelId, call.languageCode, call.config,
                               call.options)
    /\ UNCHANGED <<streamVars, call, other>>

----------------------------------------------------------------------------
(* Calls of the translation model *)

TranslationSettings ==
    { [model |-> m, from |-> f, to |-> t, mode |-> d,
       numerals_format |-> None, enable_preprocessing |-> None,
       output_script |-> None, speaker_gender |-> None] :
          m \in {None, Some("mayura:v1"), Some("sarvam-translate:v1")},
          f \in {None, Some("auto"), Some("en-IN"), Some("hi-IN")},
          t \in {Some("hi-IN"), Some("en-IN")},
          d \in {None, Some("formal"), Some("modern-colloquial")} }

TranslationPrompts ==
    { <<Hello>>,
      <<[role |-> "system", content |-> StringContent(<<"Be", " ", "brief">>)], Hello,
        [role |-> "user", content |-> ArrayContent(<<TextPart(<<"B", "y", "e">>)>>)]>>,
      <<[role |-> "user",
         content |-> ArrayContent(<<TextPart(<<"H", "i">>), FilePart(Png, UrlData)>>)]>>,
      <<Hello, [role |-> "user",
                content |-> ArrayContent(<<FilePart(Pdf, StringData)>>)]>> }

\* what the transport gives back: a failed response, or a body of
\* sarvamTranslationResponseSchema
TranslationReplies ==
    { [ok |-> FALSE] }
    \cup { [ok |-> TRUE,
            value |-> [translated_text |-> x, source_language_code |-> Some("en-IN"),
                       request_id |-> None]] :
               x \in {None, Some(<<>>), Some(<<"n", "a", "m", "a", "s", "t", "e">>)} }

TranslationCalls ==
    { [op |-> "translation.doGenerate", settings |-> s, options |-> [prompt |-> p],
       reply |-> r] :
          s \in TranslationSettings, p \in TranslationPrompts, r \in TranslationReplies }

TranslationDoGenerate ==
    /\ call.op = "translation.doGenerate"
    /\ result = Pending
    /\ result' = translationDoGenerate(call.settings, call.options, call.reply)
    /\ UNCHANGED <<streamVars, call, other>>

----------------------------------------------------------------------------
(* The closure state of one doStream call *)

InitialFinishReason == [unified |-> "other", raw |-> None]

InitialUsage ==
    [inputTokens |-> [total |-> None, noCache |-> None,
                      cacheRead |-> None, cacheWrite |-> None],
     outputTokens |-> [total |-> None, text |-> None, reasoning |-> None]]

\* The call whose stream is followed: it asks for topK and brings a tool that
\* is not a function, so its warnings are three.
StreamedCalls ==
    { c \in ChatStreamCalls :
        /\ c.settings.simulate = None
        /\ c.options.prompt = <<Hello>>
        /\ c.options.responseFormat = None
        /\ c.options.toolChoice = None
        /\ c.options.topK # None
        /\ c.options.tools = Some(<<TestTool, ProviderTool>>) }

\* doStream has posted its request and returned the stream; no chunk has
\* reached the transformer yet
\* the closure state a doStream call starts with; the two ids are those
\* generateId gave the call
InitialClosure(newTextId, newReasoningId) ==
    [toolCalls |-> <<>>,
     finishReason |-> InitialFinishReason,
     usage |-> InitialUsage,
     isFirstChunk |-> TRUE,
     textStarted |-> FALSE,
     reasoningStarted |-> FALSE,
     textId |-> newTextId,
     reasoningId |-> newReasoningId,
     events |-> <<>>,
     received |-> <<>>,
     pc |-> "open"]

Init ==
    /\ toolCalls = <<>>
    /\ finishReason = InitialFinishReason
    /\ usage = InitialUsage
    /\ isFirstChunk = TRUE
    /\ textStarted = FALSE
    /\ reasoningStarted = FALSE
    /\ textId = "gen-1"
    /\ reasoningId = "gen-2"
    /\ events = <<>>
    /\ received = <<>>
    /\ pc = "open"
    /\ call \in StreamedCalls
    /\ result = doStreamRequest(call.modelId, call.settings, call.options)
    /\ other = InitialClosure("gen-4", "gen-5")

----------------------------------------------------------------------------
(* The chunks of the response stream: ParseResult<sarvamChatChunkSchema>.   *)
(* A chunk either failed parsing/validation (success = FALSE), or its      *)
(* value is the vendor's error object, or it is a completion chunk with    *)
(* choices and the optional x_sarvam.usage.  The id, created and model     *)
(* fields only feed getResponseMetadata and are left out.                  *)

Malformed == [success |-> FALSE, error |-> "parse-error"]

VendorError == [success |-> TRUE, value |-> [error |-> "server-error"]]

Completion(choices, x_sarvam) ==
    [success |-> TRUE, value |-> [choices |-> choices, x_sarvam |-> x_sarvam]]

Choice(delta, finish_reason) == [delta |-> delta, finish_reason |-> finish_reason]

Delta(content, reasoning, tool_calls) ==
    [content |-> content, reasoning |-> reasoning, tool_calls |-> tool_calls]

\* one entry of delta.tool_calls
Fragment(index, id, type, name, arguments) ==
    [index |-> index, id |-> id, type |-> type,
     function |-> [name |-> name, arguments |-> arguments]]

XUsage(prompt_tokens, completion_tokens) ==
    Some([usage |-> Some([prompt_tokens |-> prompt_tokens,
                          completion_tokens |-> completion_tokens])])

\* the first fragment of a call, as the vendor sends it
Opening(index, id, name, arguments) ==
    Fragment(index, Some(id), Some("function"), Some(name), arguments)

\* a later fragment: only the index and a piece of the arguments
Continuation(index, arguments) == Fragment(index, None, None, None, arguments)

ToolChunk(fragments) ==
    Completion(<<Choice(Some(Delta(None, None, Some(fragments))), None)>>, None)

ContentChunk(content, reasoning) ==
    Completion(<<Choice(Some(Delta(content, reasoning, None)), None)>>, None)

ContentChunks ==
    { ContentChunk(Some(<<"a">>), None),
      ContentChunk(Some(<<"b">>), None),
      ContentChunk(Some(<<>>), Some(<<>>)),
      ContentChunk(None, Some(<<"r">>)),
      ContentChunk(Some(<<"a">>), Some(<<"s">>)),
      \* only choices[0] is read
      Completion(<<Choice(Some(Delta(None, None, None)), None),
                   Choice(Some(Delta(Some(<<"b">>), Some(<<"r">>), None)), Some("stop"))>>,
                 None) }

BookkeepingChunks ==
    { Completion(<<>>, XUsage(Some(1), Some(2))),
      Completion(<<Choice(None, Some("stop"))>>, XUsage(Some(3), None)),
      Completion(<<Choice(Some(Delta(None, None, None)), Some("tool_calls"))>>,
                 Some([usage |-> None])) }

ToolChunks ==
    { ToolChunk(<<Opening(0, "x", "f", Some(<<"[">>))>>),
      ToolChunk(<<Opening(0, "x", "f", Some(<<"[", "]">>))>>),
      ToolChunk(<<Opening(0, "x", "f", None)>>),
      ToolChunk(<<Opening(0, "y", "g", Some(<<"1">>))>>),
      ToolChunk(<<Opening(1, "y", "g", Some(<<"[">>))>>),
      ToolChunk(<<Opening(1, "x", "f", Some(<<"1">>))>>),
      ToolChunk(<<Continuation(0, Some(<<"]">>))>>),
      ToolChunk(<<Continuation(0, Some(<<>>))>>),
      ToolChunk(<<Continuation(0, None)>>),
      ToolChunk(<<Continuation(1, Some(<<"]">>))>>),
      \* first fragments the schema admits and the transformer rejects
      ToolChunk(<<Fragment(0, Some("x"), None, Some("f"), Some(<<"[">>))>>),
      ToolChunk(<<Fragment(0, Some("x"), Some("function"), None, Some(<<"[">>))>>),
      \* several fragments in one chunk
      ToolChunk(<<Opening(0, "x", "f", Some(<<"[">>)),
                  Opening(1, "y", "g", Some(<<"[">>))>>),
      ToolChunk(<<Continuation(0, Some(<<"]">>)), Continuation(1, Some(<<"]">>))>>),
      ToolChunk(<<Opening(0, "x", "f", Some(<<"[", "]">>)), Continuation(0, Some(<<>>))>>),
      \* a call opened and, for another index, a first fragment without id
      ToolChunk(<<Opening(0, "x", "f", Some(<<"[">>)),
                  Fragment(1, None, Some("function"), Some("g"), Some(<<"[">>))>>),
      \* text, a whole call and the finish reason in one chunk
      Completion(<<Choice(Some(Delta(Some(<<"a">>), None,
                                     Some(<<Opening(0, "x", "f", Some(<<"[", "]">>))>>))),
                          Some("tool_calls"))>>, None) }

Chunks == {Malformed, VendorError} \cup BookkeepingChunks \cup ContentChunks \cup ToolChunks

----------------------------------------------------------------------------
(* transform(chunk, controller), block by block.  Each operator below is   *)
(* one block of the handler and yields the parts that block enqueues or    *)
(* the new value of the variable it assigns.                               *)

ErrorFinishReason == [unified |-> "error", raw |-> None]

\* if (!chunk.success) ... if ("error" in value) ...
IsErrorChunk(chunk) == ~chunk.success \/ "error" \in DOMAIN chunk.value

ErrorPart(chunk) ==
    [type |-> "error",
     error |-> IF ~chunk.success THEN chunk.error ELSE chunk.value.error]

\* if (isFirstChunk) { isFirstChunk = false; enqueue stream-start, response-metadata }
\* faulty variant: the flag is not consulted
FirstChunkParts_EveryChunk(first) ==
    <<[type |-> "stream-start", warnings |-> result.value.warnings],
      [type |-> "response-metadata"]>>

\* the warnings are those getArgs returned to doStream; what getResponseMetadata
\* copies from the chunk (id, model, created) is left out
FirstChunkParts(first) ==
    IF first
    THEN <<[type |-> "stream-start", warnings |-> result.value.warnings],
           [type |-> "response-metadata"]>>
    ELSE <<>>

\* faulty variant: a count missing in the new record keeps the count tracked so far
UsageAfter_KeepsMissing(current, value) ==
    IF value.x_sarvam # None /\ value.x_sarvam[1].usage # None
    THEN LET u == value.x_sarvam[1].usage[1] IN
         [inputTokens |-> [total |-> IF u.prompt_tokens = None
                                     THEN current.inputTokens.total
                                     ELSE u.prompt_tokens,
                           noCache |-> None, cacheRead |-> None, cacheWrite |-> None],
          outputTokens |-> [total |-> IF u.completion_tokens = None
                                      THEN current.outputTokens.total
                                      ELSE u.completion_tokens,
                            text |-> None, reasoning |-> None]]
    ELSE current

\* if (value.x_sarvam?.usage != null) usage = {...}
UsageAfter(current, value) ==
    IF value.x_sarvam # None /\ value.x_sarvam[1].usage # None
    THEN LET u == value.x_sarvam[1].usage[1] IN
         [inputTokens |-> [total |-> u.prompt_tokens, noCache |-> None,
                           cacheRead |-> None, cacheWrite |-> None],
          outputTokens |-> [total |-> u.completion_tokens, text |-> None,
                            reasoning |-> None]]
    ELSE current

\* const choice = value.choices[0]   (undefined when choices is empty)
FirstChoice(value) ==
    IF Len(value.choices) > 0 THEN Some(value.choices[1]) ELSE None

\* faulty variant: a finish reason already tracked is kept
FinishReasonAfter_FirstWins(current, choice) ==
    IF choice # None /\ choice[1].finish_reason # None /\ current.raw = None
    THEN mapSarvamFinishReason(choice[1].finish_reason)
    ELSE current

\* if (choice?.finish_reason != null) finishReason = mapSarvamFinishReason(...)
FinishReasonAfter(current, choice) ==
    IF choice # None /\ choice[1].finish_reason # None
    THEN mapSarvamFinishReason(choice[1].finish_reason)
    ELSE current

\* choice?.delta   (nullish when there is no choice or no delta)
DeltaOf(choice) == IF choice = None THEN None ELSE choice[1].delta

\* delta.reasoning != null && delta.reasoning.length > 0
\* faulty variant: only null is skipped, the empty string is not
HasReasoning_NotNull(delta) == delta.reasoning # None

HasReasoning(delta) == delta.reasoning # None /\ Len(delta.reasoning[1]) > 0

ReasoningParts(delta, started, id) ==
    IF HasReasoning(delta)
    THEN (IF ~started THEN <<[type |-> "reasoning-start", id |-> id]>> ELSE <<>>)
         \o <<[type |-> "reasoning-delta", id |-> id, delta |-> delta.reasoning[1]]>>
    ELSE <<>>

\* faulty variant: the length check is dropped
HasContent_NotNull(delta) == delta.content # None

\* delta.content != null && delta.content.length > 0
HasContent(delta) == delta.content # None /\ Len(delta.content[1]) > 0

\* faulty variant: the started flag is not consulted
TextParts_StartEveryDelta(delta, started, id) ==
    IF HasContent(delta)
    THEN <<[type |-> "text-start", id |-> id],
           [type |-> "text-delta", id |-> id, delta |-> delta.content[1]]>>
    ELSE <<>>

TextParts(delta, started, id) ==
    IF HasContent(delta)
    THEN (IF ~started THEN <<[type |-> "text-start", id |-> id]>> ELSE <<>>)
         \o <<[type |-> "text-delta", id |-> id, delta |-> delta.content[1]]>>
    ELSE <<>>

----------------------------------------------------------------------------
(* for (const toolCallDelta of delta.tool_calls).  The loop state is       *)
(* [toolCalls, out, thrown]: the array, the parts enqueued by the loop so  *)
(* far, and whether an InvalidResponseDataError has left the handler.      *)
(* Tool parts carry, next to the fields the code gives them, the array     *)
(* index that produced them (index); consumers never see it.               *)

\* toolCalls[index] = entry   (the array may have holes)
Assign(array, index, entry) ==
    [i \in DOMAIN array \cup {index} |-> IF i = index THEN entry ELSE array[i]]

\* faulty variant: the type of the first fragment is not checked
FirstFragmentRejected_AnyType(d) ==
    \/ d.id = None
    \/ d.function.name = None

\* the three checks on the first fragment of an index
FirstFragmentRejected(d) ==
    \/ d.type # Some("function")
    \/ d.id = None
    \/ d.function.name = None

\* toolCalls[index] = { id, type, function: { name, arguments ?? "" }, hasFinished: false }
NewToolCall(d) ==
    [id |-> d.id[1],
     type |-> "function",
     function |-> [name |-> d.function.name[1],
                   arguments |-> OrElse(d.function.arguments, <<>>)],
     hasFinished |-> FALSE]

ToolInputStart(index, toolCall) ==
    [type |-> "tool-input-start", id |-> toolCall.id,
     toolName |-> toolCall.function.name, index |-> index]

ToolInputDelta(index, toolCall, delta) ==
    [type |-> "tool-input-delta", id |-> toolCall.id, delta |-> delta, index |-> index]

\* faulty variant: the tool-call part is enqueued before tool-input-end
Finalization_CallFirst(index, toolCall) ==
    << [type |-> "tool-call", toolCallId |-> toolCall.id,
        toolName |-> toolCall.function.name,
        input |-> toolCall.function.arguments, index |-> index],
       [type |-> "tool-input-end", id |-> toolCall.id, index |-> index] >>

\* the two parts that finalize a call
Finalization(index, toolCall) ==
    << [type |-> "tool-input-end", id |-> toolCall.id, index |-> index],
       [type |-> "tool-call", toolCallId |-> toolCall.id,
        toolName |-> toolCall.function.name,
        input |-> toolCall.function.arguments, index |-> index] >>

\* if (isParsableJson(toolCall.function.arguments)) on a new call
NewCallComplete(toolCall) == isParsableJson(toolCall.function.arguments)

\* the parts of a new call: start, the first delta if not empty, the finalization
NewCallParts(index, toolCall) ==
    <<ToolInputStart(index, toolCall)>>
    \o (IF Len(toolCall.function.arguments) > 0
        THEN <<ToolInputDelta(index, toolCall, toolCall.function.arguments)>>
        ELSE <<>>)
    \o (IF NewCallComplete(toolCall) THEN Finalization(index, toolCall) ELSE <<>>)

\* faulty variant: the hasFinished check is missing
SkipsFragment_Never(toolCall) == FALSE

\* if (toolCall.hasFinished) continue
SkipsFragment(toolCall) == toolCall.hasFinished

\* if (toolCallDelta.function?.arguments != null) toolCall.function.arguments += ...
Accumulated(toolCall, d) ==
    IF d.function.arguments # None
    THEN [toolCall EXCEPT !.function.arguments = @ \o d.function.arguments[1]]
    ELSE toolCall

\* faulty variant: a call is finalized as soon as any arguments have arrived
AccumulatedComplete_NonEmpty(toolCall) == Len(toolCall.function.arguments) > 0

\* toolCall.function?.name != null && ...arguments != null && isParsableJson(...)
\* (name and arguments of a stored call are never null)
AccumulatedComplete(toolCall) == isParsableJson(toolCall.function.arguments)

\* faulty variant: the fragment that completes a call is not emitted as a delta
LaterFragmentParts_NoClosingDelta(index, toolCall, d) ==
    IF AccumulatedComplete(toolCall) THEN Finalization(index, toolCall)
    ELSE <<ToolInputDelta(index, toolCall, OrElse(d.function.arguments, <<>>))>>

\* the parts of a later fragment: always a delta, then the finalization
LaterFragmentParts(index, toolCall, d) ==
    <<ToolInputDelta(index, toolCall, OrElse(d.function.arguments, <<>>))>>
    \o (IF AccumulatedComplete(toolCall) THEN Finalization(index, toolCall) ELSE <<>>)

\* one iteration of the loop
ToolCallStep(st, d) ==
    LET index == d.index IN
    IF index \notin DOMAIN st.toolCalls THEN
        IF FirstFragmentRejected(d) THEN [st EXCEPT !.thrown = TRUE]
        ELSE LET toolCall == NewToolCall(d) IN
             [toolCalls |-> Assign(st.toolCalls, index,
                                   [toolCall EXCEPT !.hasFinished = NewCallComplete(toolCall)]),
              out |-> st.out \o NewCallParts(index, toolCall),
              thrown |-> FALSE]
    ELSE IF SkipsFragment(st.toolCalls[index]) THEN st
    ELSE LET toolCall == Accumulated(st.toolCalls[index], d) IN
         [toolCalls |-> Assign(st.toolCalls, index,
                               [toolCall EXCEPT !.hasFinished = AccumulatedComplete(toolCall)]),
          out |-> st.out \o LaterFragmentParts(index, toolCall, d),
          thrown |-> FALSE]

\* the loop: a throw leaves it at once
RECURSIVE ToolCallLoop(_, _)
ToolCallLoop(st, fragments) ==
    IF fragments = <<>> \/ st.thrown THEN st
    ELSE ToolCallLoop(ToolCallStep(st, Head(fragments)), Tail(fragments))

\* if (delta.tool_calls != null) for (...)
ToolCallsAfter(array, delta) ==
    ToolCallLoop([toolCalls |-> array, out |-> <<>>, thrown |-> FALSE],
                 OrElse(delta.tool_calls, <<>>))

----------------------------------------------------------------------------
(* The actions *)

\* faulty variant: the error chunk counts as the first chunk
TransformError_ClearsFirstChunk(chunk) ==
    /\ finishReason' = ErrorFinishReason
    /\ events' = Append(events, ErrorPart(chunk))
    /\ isFirstChunk' = FALSE
    /\ UNCHANGED <<toolCalls, usage, textStarted, reasoningStarted, pc>>

\* transform of a chunk that failed parsing or is the vendor's error object
TransformError(chunk) ==
    /\ finishReason' = ErrorFinishReason
    /\ events' = Append(events, ErrorPart(chunk))
    /\ UNCHANGED <<toolCalls, usage, isFirstChunk, textStarted, reasoningStarted, pc>>

\* transform of a completion chunk
TransformValue(value) ==
    LET choice == FirstChoice(value)
        delta == DeltaOf(choice)
        tools == IF delta = None THEN ToolCallsAfter(toolCalls, Delta(None, None, None))
                 ELSE ToolCallsAfter(toolCalls, delta[1])
    IN
    /\ isFirstChunk' = FALSE
    /\ usage' = UsageAfter(usage, value)
    /\ finishReason' = FinishReasonAfter(finishReason, choice)
    /\ reasoningStarted' = (reasoningStarted \/ (delta # None /\ HasReasoning(delta[1])))
    /\ textStarted' = (textStarted \/ (delta # None /\ HasContent(delta[1])))
    /\ toolCalls' = tools.toolCalls
    /\ events' = events
                 \o FirstChunkParts(isFirstChunk)
                 \o (IF delta = None THEN <<>>
                     ELSE ReasoningParts(delta[1], reasoningStarted, reasoningId)
                          \o TextParts(delta[1], textStarted, textId)
                          \o tools.out)
    /\ pc' = IF tools.thrown THEN "errored" ELSE "open"

Transform ==
    /\ pc = "open"
    /\ Len(received) < MaxChunks
    /\ \E chunk \in Chunks :
        /\ received' = Append(received, chunk)
        /\ IF IsErrorChunk(chunk) THEN TransformError(chunk)
           ELSE TransformValue(chunk.value)
    /\ UNCHANGED <<textId, reasoningId, call, result, other>>

\* faulty variant: the end parts are enqueued whether or not the channel started
FlushParts_AlwaysEnds ==
    <<[type |-> "reasoning-end", id |-> reasoningId],
      [type |-> "text-end", id |-> textId],
      [type |-> "finish", finishReason |-> finishReason, usage |-> usage]>>

\* faulty variant: text-end is enqueued before reasoning-end
FlushParts_TextEndFirst ==
    (IF textStarted THEN <<[type |-> "text-end", id |-> textId]>> ELSE <<>>)
    \o (IF reasoningStarted THEN <<[type |-> "reasoning-end", id |-> reasoningId]>> ELSE <<>>)
    \o <<[type |-> "finish", finishReason |-> finishReason, usage |-> usage]>>

\* faulty variant: flush finalizes the calls that are still open
FlushParts_FinalizesOpenCalls ==
    LET open == {i \in DOMAIN toolCalls : ~toolCalls[i].hasFinished}
        Ends(i) == IF i \in open THEN Finalization(i, toolCalls[i]) ELSE <<>>
    IN  (IF reasoningStarted THEN <<[type |-> "reasoning-end", id |-> reasoningId]>> ELSE <<>>)
        \o (IF textStarted THEN <<[type |-> "text-end", id |-> textId]>> ELSE <<>>)
        \o Ends(0) \o Ends(1)
        \o <<[type |-> "finish", finishReason |-> finishReason, usage |-> usage]>>

\* flush(controller): the upstream closed
FlushParts ==
    (IF reasoningStarted THEN <<[type |-> "reasoning-end", id |-> reasoningId]>> ELSE <<>>)
    \o (IF textStarted THEN <<[type |-> "text-end", id |-> textId]>> ELSE <<>>)
    \o <<[type |-> "finish", finishReason |-> finishReason, usage |-> usage]>>

Flush ==
    /\ pc = "open"
    /\ events' = events \o FlushParts
    /\ pc' = "closed"
    /\ UNCHANGED <<toolCalls, finishReason, usage, isFirstChunk, textStarted,
                   reasoningStarted, textId, reasoningId, received, call, result, other>>

Next == Transform \/ Flush

Spec == Init /\ [][Next]_vars

----------------------------------------------------------------------------
(* Two doStream calls on one model instance, their streams consumed        *)
(* concurrently.  A handler runs to completion, so the streams interleave  *)
(* handler by handler.  Each call declared its accumulators as locals of   *)
(* doStream (model.ts:294-313): the handler of a stream reads and writes   *)
(* the locals of its own call.  The stream variables hold the locals of    *)
(* the call whose handler runs next, other those of the second call.       *)

\* Chunks the two streams deliver together.
MaxInterleaved == 3

\* the locals of the call whose handler runs next
ActiveClosure ==
    [toolCalls |-> toolCalls,
     finishReason |-> finishReason,
     usage |-> usage,
     isFirstChunk |-> isFirstChunk,
     textStarted |-> textStarted,
     reasoningStarted |-> reasoningStarted,
     textId |-> textId,
     reasoningId |-> reasoningId,
     events |-> events,
     received |-> received,
     pc |-> pc]

\* faulty variant: the tool-call table is one table of the model instance
Switch_SharedToolCalls ==
    /\ toolCalls' = toolCalls
    /\ finishReason' = other.finishReason
    /\ usage' = other.usage
    /\ isFirstChunk' = other.isFirstChunk
    /\ textStarted' = other.textStarted
    /\ reasoningStarted' = other.reasoningStarted
    /\ textId' = other.textId
    /\ reasoningId' = other.reasoningId
    /\ events' = other.events
    /\ received' = other.received
    /\ pc' = other.pc
    /\ other' = ActiveClosure
    /\ UNCHANGED <<call, result>>

\* the runtime turns to the other stream: its handler finds the locals of
\* its own call
Switch ==
    /\ toolCalls' = other.toolCalls
    /\ finishReason' = other.finishReason
    /\ usage' = other.usage
    /\ isFirstChunk' = other.isFirstChunk
    /\ textStarted' = other.textStarted
    /\ reasoningStarted' = other.reasoningStarted
    /\ textId' = other.textId
    /\ reasoningId' = other.reasoningId
    /\ events' = other.events
    /\ received' = other.received
    /\ pc' = other.pc
    /\ other' = ActiveClosure
    /\ UNCHANGED <<call, result>>

\* the chunks of the interleaved streams: one for each accumulator
InterleavedChunks ==
    { ContentChunk(Some(<<"a">>), Some(<<"s">>)),
      ToolChunk(<<Opening(0, "x", "f", Some(<<"[">>))>>),
      ToolChunk(<<Continuation(0, Some(<<"]">>))>>),
      Completion(<<Choice(None, Some("stop"))>>, XUsage(Some(3), None)),
      Malformed }

TransformInterleaved ==
    /\ Len(received) + Len(other.received) < MaxInterleaved
    /\ Transform
    /\ received'[Len(received')] \in InterleavedChunks

NextTwo == TransformInterleaved \/ Flush \/ Switch

SpecTwo == Init /\ [][NextTwo]_vars

----------------------------------------------------------------------------
(* The single-shot calls together *)

Calls ==
    MapFinishReasonCalls \cup ConvertCalls \cup ChatGenerateCalls
        \cup ChatStreamCalls \cup SpeechCalls \cup TranslationCalls

InitCalls ==
    /\ toolCalls = <<>>
    /\ finishReason = InitialFinishReason
    /\ usage = InitialUsage
    /\ isFirstChunk = TRUE
    /\ textStarted = FALSE
    /\ reasoningStarted = FALSE
    /\ textId = "gen-1"
    /\ reasoningId = "gen-2"
    /\ events = <<>>
    /\ received = <<>>
    /\ pc = "open"
    /\ call \in Calls
    /\ result = Pending
    /\ other = InitialClosure("gen-4", "gen-5")

NextCalls ==
    \/ MapFinishReason
    \/ ConvertMessages
    \/ ChatDoGenerate
    \/ ChatDoStreamRequest
    \/ SpeechGetArgs
    \/ TranslationDoGenerate

SpecCalls == InitCalls /\ [][NextCalls]_vars

----------------------------------------------------------------------------
(* Reading the event sequence and the received chunks *)

Positions(type) == {k \in 1..Len(events) : events[k].type = type}

Count(type) == Cardinality(Positions(type))

\* the deltas of the parts of one type, in emission order
DeltasOf(type) ==
    LET Is(e) == e.type = type
        parts == SelectSeq(events, Is)
    IN [k \in 1..Len(parts) |-> parts[k].delta]

RECURSIVE Concat(_)
Concat(strings) ==
    IF strings = <<>> THEN <<>> ELSE Head(strings) \o Concat(Tail(strings))

ToolTypes == {"tool-input-start", "tool-input-delta", "tool-input-end", "tool-call"}

\* the tool parts emitted for one tool-call index, in emission order
ToolPartsOf(index) ==
    LET Is(e) == e.type \in ToolTypes /\ e.index = index
    IN SelectSeq(events, Is)

\* what a chunk carries on a channel: nothing unless it is a completion chunk
\* whose first choice has a delta
SentDelta(chunk) ==
    IF ~chunk.success THEN None
    ELSE IF "choices" \notin DOMAIN chunk.value THEN None
    ELSE IF chunk.value.choices = <<>> THEN None
    ELSE chunk.value.choices[1].delta

\* the non-empty strings upstream sent as delta.content, in arrival order
RECURSIVE SentContent(_)
SentContent(chunks) ==
    IF chunks = <<>> THEN <<>>
    ELSE LET d == SentDelta(Head(chunks)) IN
         (IF d # None /\ d[1].content \notin {None, Some(<<>>)}
          THEN <<d[1].content[1]>> ELSE <<>>) \o SentContent(Tail(chunks))

\* the non-empty strings upstream sent as delta.reasoning, in arrival order
RECURSIVE SentReasoning(_)
SentReasoning(chunks) ==
    IF chunks = <<>> THEN <<>>
    ELSE LET d == SentDelta(Head(chunks)) IN
         (IF d # None /\ d[1].reasoning \notin {None, Some(<<>>)}
          THEN <<d[1].reasoning[1]>> ELSE <<>>) \o SentReasoning(Tail(chunks))

\* every tool-call fragment upstream sent, in arrival order
RECURSIVE SentFragments(_)
SentFragments(chunks) ==
    IF chunks = <<>> THEN <<>>
    ELSE LET d == SentDelta(Head(chunks)) IN
         (IF d # None THEN OrElse(d[1].tool_calls, <<>>) ELSE <<>>)
         \o SentFragments(Tail(chunks))

\* the first fragment upstream sent for an index
FirstFragment(index) ==
    LET Is(f) == f.index = index IN Head(SelectSeq(SentFragments(received), Is))

----------------------------------------------------------------------------
StartedBefore(k, startType) ==
    \E j \in 1..(k - 1) : events[j].type = startType /\ events[j].id = events[k].id

(* C1: every text-delta is preceded by a text-start with its id, every     *)
(* reasoning-delta by a reasoning-start with its id, every                 *)
(* tool-input-delta by the tool-input-start of its tool-call index; and    *)
(* each start is emitted at most once per channel and per index.           *)
C1_StartPrecedesDeltas ==
    /\ \A k \in Positions("text-delta") : StartedBefore(k, "text-start")
    /\ \A k \in Positions("reasoning-delta") : StartedBefore(k, "reasoning-start")
    /\ \A k \in Positions("tool-input-delta") :
        \E j \in 1..(k - 1) :
            /\ events[j].type = "tool-input-start"
            /\ events[j].index = events[k].index
            /\ events[j].id = events[k].id
    /\ Count("text-start") <= 1
    /\ Count("reasoning-start") <= 1
    /\ \A j, k \in Positions("tool-input-start") :
        events[j].index = events[k].index => j = k

\* two deltas on each of the text and reasoning channels and on one tool call
C1_Witness ==
    /\ Count("text-delta") >= 2
    /\ Count("reasoning-delta") >= 1
    /\ \E j, k \in Positions("tool-input-delta") : j # k /\ events[j].index = events[k].index

----------------------------------------------------------------------------
(* C2: the text-delta parts carry exactly the non-empty delta.content      *)
(* strings of the chunks received, unmodified and in arrival order, and    *)
(* the reasoning-delta parts exactly the non-empty delta.reasoning         *)
(* strings; so the concatenation of the deltas of a channel is the         *)
(* concatenation of what upstream sent on it.                              *)

C2_DeltasVerbatim ==
    /\ DeltasOf("text-delta") = SentContent(received)
    /\ DeltasOf("reasoning-delta") = SentReasoning(received)
    /\ Concat(DeltasOf("text-delta")) = Concat(SentContent(received))
    /\ Concat(DeltasOf("reasoning-delta")) = Concat(SentReasoning(received))

\* "b" then "a" on the text channel, with an empty fragment in between, and
\* reasoning in the same chunk as the "a"; the empty fragment is empty on both channels
C2_Witness ==
    /\ DeltasOf("text-delta") = << <<"b">>, <<"a">> >>
    /\ DeltasOf("reasoning-delta") = << <<"s">> >>
    /\ Len(received) = 3
    /\ received[2] = ContentChunk(Some(<<>>), Some(<<>>))

----------------------------------------------------------------------------
(* C3: tool-input-end and tool-call are emitted for an index only when     *)
(* the arguments accumulated for it are parsable JSON; the input of the    *)
(* tool-call is that accumulated string, and its id and tool name are      *)
(* those of the first fragment of the index.                               *)

C3_FinalizedWhenParsable ==
    /\ \A k \in Positions("tool-input-end") :
        /\ events[k].index \in DOMAIN toolCalls
        /\ isParsableJson(toolCalls[events[k].index].function.arguments)
        /\ events[k].id = FirstFragment(events[k].index).id[1]
    /\ \A k \in Positions("tool-call") :
        /\ events[k].index \in DOMAIN toolCalls
        /\ isParsableJson(toolCalls[events[k].index].function.arguments)
        /\ events[k].input = toolCalls[events[k].index].function.arguments
        /\ events[k].toolCallId = FirstFragment(events[k].index).id[1]
        /\ events[k].toolName = FirstFragment(events[k].index).function.name[1]

\* "[" + "1" + "]" over three fragments, the second one carrying another id
\* and name, finalized as "[1]" under the id and name of the first
C3_Witness ==
    \E k \in Positions("tool-call") :
        /\ events[k].input = <<"[", "1", "]">>
        /\ events[k].toolCallId = "x"
        /\ events[k].toolName = "f"
        /\ received[2] = ToolChunk(<<Opening(0, "y", "g", Some(<<"1">>))>>)

----------------------------------------------------------------------------
NewParts == SubSeq(events', Len(events) + 1, Len(events'))

C4_Step ==
    /\ \A i \in DOMAIN toolCalls :
        toolCalls[i].hasFinished =>
            /\ i \in DOMAIN toolCalls'
            /\ toolCalls'[i] = toolCalls[i]
            /\ \A k \in 1..Len(NewParts) :
                NewParts[k].type \in ToolTypes => NewParts[k].index # i
    /\ \A i \in DOMAIN toolCalls' :
        LET parts == ToolPartsOf(i)'
        IN /\ Cardinality({k \in 1..Len(parts) : parts[k].type = "tool-input-end"}) <= 1
           /\ Cardinality({k \in 1..Len(parts) : parts[k].type = "tool-call"}) <= 1

(* C4: once an index is finalized, a later fragment for it emits nothing   *)
(* and leaves its accumulated call unchanged; so an index has at most one  *)
(* tool-input-end and at most one tool-call.                               *)
C4_FinalizedIsFrozen == [][C4_Step]_vars

\* "[" then "]" finalizes index 0; a further "]" fragment arrives afterwards
C4_Witness ==
    /\ Len(received) = 3
    /\ received[1] = ToolChunk(<<Opening(0, "x", "f", Some(<<"[">>))>>)
    /\ received[2] = ToolChunk(<<Continuation(0, Some(<<"]">>))>>)
    /\ received[3] = ToolChunk(<<Continuation(0, Some(<<"]">>))>>)
    /\ toolCalls[0].hasFinished
    /\ toolCalls[0].function.arguments = <<"[", "]">>

----------------------------------------------------------------------------
TypesOf(parts) == [k \in 1..Len(parts) |-> parts[k].type]

(* C5: the parts of a finalized index are tool-input-start, then zero or   *)
(* more tool-input-delta, then tool-input-end, then tool-call, and the     *)
(* tool-call immediately follows the tool-input-end; whether the arguments *)
(* arrive over many fragments or in one.                                   *)
C5_ToolPartOrder ==
    /\ \A i \in DOMAIN toolCalls :
        toolCalls[i].hasFinished =>
            LET types == TypesOf(ToolPartsOf(i))
                n == Len(types)
            IN /\ n >= 3
               /\ types[1] = "tool-input-start"
               /\ \A k \in 2..(n - 2) : types[k] = "tool-input-delta"
               /\ types[n - 1] = "tool-input-end"
               /\ types[n] = "tool-call"
    /\ \A k \in Positions("tool-input-end") :
        /\ k + 1 <= Len(events)
        /\ events[k + 1].type = "tool-call"
        /\ events[k + 1].index = events[k].index
        /\ events[k + 1].toolCallId = events[k].id
        /\ toolCalls[events[k].index].hasFinished

\* index 1 finalized over two fragments, index 0 in a single fragment
C5_Witness ==
    /\ 0 \in DOMAIN toolCalls /\ toolCalls[0].hasFinished
    /\ 1 \in DOMAIN toolCalls /\ toolCalls[1].hasFinished
    /\ TypesOf(ToolPartsOf(0)) =
        <<"tool-input-start", "tool-input-delta", "tool-input-end", "tool-call">>
    /\ TypesOf(ToolPartsOf(1)) =
        <<"tool-input-start", "tool-input-delta", "tool-input-delta",
          "tool-input-end", "tool-call">>

----------------------------------------------------------------------------
(* C6: text-end is emitted exactly once if a text-start was emitted and    *)
(* never otherwise, reasoning-end likewise; both only at stream close,     *)
(* after every delta of their channel.                                     *)

C6_EndsAtClose ==
    /\ Count("text-end") =
        (IF pc = "closed" /\ Count("text-start") > 0 THEN 1 ELSE 0)
    /\ Count("reasoning-end") =
        (IF pc = "closed" /\ Count("reasoning-start") > 0 THEN 1 ELSE 0)
    /\ \A k \in Positions("text-end") :
        /\ events[k].id = textId
        /\ \A j \in Positions("text-delta") \cup Positions("text-start") : j < k
    /\ \A k \in Positions("reasoning-end") :
        /\ events[k].id = reasoningId
        /\ \A j \in Positions("reasoning-delta") \cup Positions("reasoning-start") : j < k

\* a closed stream with two text deltas and its text-end, and no
\* reasoning-end because the only reasoning fragment was empty
C6_Witness ==
    /\ pc = "closed"
    /\ Count("text-delta") = 2
    /\ Count("text-end") = 1
    /\ \E m \in 1..Len(received) : received[m] = ContentChunk(Some(<<>>), Some(<<>>))
    /\ Count("reasoning-end") = 0

----------------------------------------------------------------------------
ContentTypes ==
    {"text-start", "text-delta", "reasoning-start", "reasoning-delta"} \cup ToolTypes

(* C7: after a malformed chunk (one that failed validation) no text,       *)
(* reasoning or tool part is emitted for any later chunk of the stream.    *)
C7_NothingAfterMalformed ==
    \A j, k \in 1..Len(events) :
        (j < k /\ events[j].type = "error" /\ events[j].error = Malformed.error)
            => events[k].type \notin ContentTypes

----------------------------------------------------------------------------
SawErrorChunk ==
    \E m \in 1..Len(received) :
        ~received[m].success \/ "error" \in DOMAIN received[m].value

(* C8: if any chunk of the stream is malformed or is a vendor error        *)
(* object, the finish part emitted at stream close carries the error       *)
(* finish reason (unified = error, raw undefined), whatever comes after.   *)
C8_ErrorFinishReasonSticks ==
    (pc = "closed" /\ SawErrorChunk) =>
        events[Len(events)].finishReason = [unified |-> "error", raw |-> None]

----------------------------------------------------------------------------
\* the x_sarvam.usage records upstream sent, in arrival order
RECURSIVE SentUsage(_)
SentUsage(chunks) ==
    IF chunks = <<>> THEN <<>>
    ELSE LET c == Head(chunks) IN
         (IF c.success /\ "x_sarvam" \in DOMAIN c.value
             /\ c.value.x_sarvam # None /\ c.value.x_sarvam[1].usage # None
          THEN <<c.value.x_sarvam[1].usage[1]>> ELSE <<>>) \o SentUsage(Tail(chunks))

LastWriteUsage ==
    LET sent == SentUsage(received) IN
    [inputTokens |->
        [total |-> IF sent = <<>> THEN None ELSE sent[Len(sent)].prompt_tokens,
         noCache |-> None, cacheRead |-> None, cacheWrite |-> None],
     outputTokens |->
        [total |-> IF sent = <<>> THEN None ELSE sent[Len(sent)].completion_tokens,
         text |-> None, reasoning |-> None]]

(* C9: the usage of the finish part is that of the last chunk that carried *)
(* x_sarvam.usage: the whole record is overwritten, never summed, a count  *)
(* missing in that last record is undefined; all-undefined when no chunk   *)
(* carried usage.                                                          *)
C9_UsageLastWriteWins ==
    /\ usage = LastWriteUsage
    /\ \A k \in Positions("finish") : events[k].usage = LastWriteUsage

\* usage {1, 2} and then usage {3, missing}: the finish part reports {3, undefined}
C9_Witness ==
    /\ pc = "closed"
    /\ Len(SentUsage(received)) = 2
    /\ SentUsage(received)[1] = [prompt_tokens |-> Some(1), completion_tokens |-> Some(2)]
    /\ events[Len(events)].type = "finish"
    /\ events[Len(events)].usage.inputTokens.total = Some(3)
    /\ events[Len(events)].usage.outputTokens.total = None

----------------------------------------------------------------------------
(* C10: when the upstream closes exactly one finish part is emitted, it is *)
(* the last part of the stream, and it comes right after reasoning-end     *)
(* (if any) and then text-end (if any); none is emitted before the close.  *)

C10_FinishIsLast ==
    /\ Count("finish") = (IF pc = "closed" THEN 1 ELSE 0)
    /\ pc = "closed" =>
        LET n == Len(events)
            t == Count("text-end")
            r == Count("reasoning-end")
        IN /\ events[n].type = "finish"
           /\ t = 1 => events[n - 1].type = "text-end"
           /\ r = 1 => events[n - 1 - t].type = "reasoning-end"
           /\ \A k \in 1..(n - 1 - t - r) :
                events[k].type \notin {"finish", "text-end", "reasoning-end"}

\* a closed stream whose last three parts are reasoning-end, text-end, finish
C10_Witness ==
    /\ pc = "closed"
    /\ Len(events) >= 3
    /\ events[Len(events) - 2].type = "reasoning-end"
    /\ events[Len(events) - 1].type = "text-end"
    /\ events[Len(events)].type = "finish"
    /\ Count("tool-call") = 1

----------------------------------------------------------------------------
\* the non-null finish_reason values upstream sent on choices[0], in arrival order
RECURSIVE SentFinishReasons(_)
SentFinishReasons(chunks) ==
    IF chunks = <<>> THEN <<>>
    ELSE LET c == Head(chunks) IN
         (IF c.success /\ "choices" \in DOMAIN c.value /\ c.value.choices # <<>>
             /\ c.value.choices[1].finish_reason # None
          THEN <<c.value.choices[1].finish_reason>> ELSE <<>>)
         \o SentFinishReasons(Tail(chunks))

LastFinishReason ==
    LET sent == SentFinishReasons(received) IN
    IF sent = <<>> THEN [unified |-> "other", raw |-> None]
    ELSE mapSarvamFinishReason(sent[Len(sent)])

(* C11: in a stream with no malformed or error chunk the finish reason of  *)
(* the finish part is mapSarvamFinishReason of the last non-null           *)
(* finish_reason seen on choices[0] (later values overwrite earlier ones), *)
(* and {unified: other, raw: undefined} when no chunk carried one.         *)
C11_FinishReasonLastWins ==
    ~SawErrorChunk =>
        /\ finishReason = LastFinishReason
        /\ \A k \in Positions("finish") : events[k].finishReason = LastFinishReason

\* finish_reason "stop" and then "tool_calls": the finish part reports tool-calls
C11_Witness ==
    /\ pc = "closed"
    /\ ~SawErrorChunk
    /\ SentFinishReasons(received) = <<Some("stop"), Some("tool_calls")>>
    /\ events[Len(events)].finishReason = [unified |-> "tool-calls", raw |-> Some("tool_calls")]

----------------------------------------------------------------------------
\* the last chunk handed to transform was malformed or the vendor's error object
LastChunkIsError ==
    /\ Len(received') = Len(received) + 1
    /\ LET c == received'[Len(received')] IN ~c.success \/ "error" \in DOMAIN c.value

C13_Step ==
    LastChunkIsError =>
        LET c == received'[Len(received')] IN
        /\ events' = Append(events,
                [type |-> "error", error |-> IF c.success THEN c.value.error ELSE c.error])
        /\ textStarted' = textStarted
        /\ reasoningStarted' = reasoningStarted
        /\ toolCalls' = toolCalls
        /\ isFirstChunk' = isFirstChunk
        /\ usage' = usage

(* C13: a chunk that failed parsing or is a vendor error object produces   *)
(* exactly one error part (carrying the parse error or the vendor's error  *)
(* object) and nothing else: no stream-start, response-metadata or content *)
(* part, and the started flags, the tool-call accumulators, the            *)
(* first-chunk flag and the tracked usage are unchanged.                   *)
C13_ErrorChunkFrame == [][C13_Step]_vars

\* a vendor error as the first chunk, then text: the error part comes first and
\* stream-start only with the text chunk
C13_Witness ==
    /\ Len(received) = 2
    /\ received[1] = VendorError
    /\ Len(events) >= 2
    /\ events[1] = [type |-> "error", error |-> "server-error"]
    /\ events[2].type = "stream-start"
    /\ textStarted

----------------------------------------------------------------------------
(* C12: mapSarvamFinishReason returns for every string and for a missing
   value: stop gives stop, length gives length, content_filter gives
   content-filter, function_call and tool_calls give tool-calls, anything else
   (a missing value included) gives other; raw is the input string unchanged,
   or missing when the input is missing; the unified reason is never error. *)
C12_FinishReasonMapping ==
    (call.op = "mapSarvamFinishReason" /\ result # Pending) =>
        LET fr == call.finishReason
            expected ==
                CASE fr = Some("stop") -> "stop"
                  [] fr = Some("length") -> "length"
                  [] fr = Some("content_filter") -> "content-filter"
                  [] fr \in {Some("function_call"), Some("tool_calls")} -> "tool-calls"
                  [] OTHER -> "other"
        IN  /\ result.state = "returned"
            /\ result.value.unified = expected
            /\ result.value.raw = fr
            /\ result.value.unified # "error"

C12_Witness ==
    /\ call.op = "mapSarvamFinishReason"
    /\ call.finishReason = Some("function_call")
    /\ result = Returned([unified |-> "tool-calls", raw |-> Some("function_call")])

----------------------------------------------------------------------------
(* Reading a converted prompt *)

PartsOfType(content, type) == SelectSeq(content, LAMBDA part : part.type = type)

\* how many messages a turn stands for
MessageCount(turn) ==
    IF turn.role = "tool"
    THEN Len(PartsOfType(turn.content.array, "tool-result"))
    ELSE 1

RECURSIVE MessagesBefore(_, _)
MessagesBefore(prompt, i) ==
    IF i = 1 THEN 0
    ELSE MessagesBefore(prompt, i - 1) + MessageCount(prompt[i - 1])

RECURSIVE JoinTexts(_)
JoinTexts(parts) ==
    IF parts = <<>> THEN <<>> ELSE parts[1].text \o JoinTexts(Tail(parts))

HoldsNonImageFile(turn) ==
    /\ turn.role = "user"
    /\ \E j \in 1..Len(turn.content.array) :
           /\ turn.content.array[j].type = "file"
           /\ ~StartsWith(turn.content.array[j].mediaType, <<"image/">>)

ConvertDone == call.op = "convertToSarvamChatMessages" /\ result # Pending

UserTurnShape(turn, message) ==
    LET content == turn.content.array IN
    /\ message.role = "user"
    /\ IF Len(content) = 1 /\ content[1].type = "text"
       THEN message.content = StringContent(content[1].text)
       ELSE /\ DOMAIN message.content = {"array"}
            /\ Len(message.content.array) = Len(content)
            /\ \A j \in 1..Len(content) :
                   LET entry == message.content.array[j] IN
                   IF content[j].type = "text"
                   THEN entry = [type |-> "text", text |-> content[j].text]
                   ELSE entry.type = "image_url"

UserTurnsConverted ==
    /\ result.state = "returned"
    /\ \A i \in 1..Len(call.prompt) :
           call.prompt[i].role = "user" =>
               /\ MessagesBefore(call.prompt, i) + 1 <= Len(result.value)
               /\ UserTurnShape(call.prompt[i],
                                result.value[MessagesBefore(call.prompt, i) + 1])

(* C17 as stated: a user turn of exactly one text part becomes a message
   whose content is that text as a string, and every other user turn becomes
   a message whose content is an array with one entry per part in order, text
   parts as text entries and image file parts as image_url entries. *)
C17_EveryUserTurnConverted == ConvertDone => UserTurnsConverted

(* C17, amended: the above holds for every prompt none of whose user turns
   holds a file part with a media type outside image/; a prompt with such a
   part makes the conversion throw UnsupportedFunctionalityError and produce
   no message at all. *)
C17_UserTurnsConvertedOrThrown ==
    ConvertDone =>
        IF \E i \in 1..Len(call.prompt) : HoldsNonImageFile(call.prompt[i])
        THEN result = Threw("UnsupportedFunctionalityError")
        ELSE UserTurnsConverted

C17_Witness ==
    /\ ConvertDone
    /\ call.prompt =
           <<[role |-> "user", content |-> ArrayContent(<<TextPart(<<"H", "i">>)>>)],
             [role |-> "user",
              content |-> ArrayContent(<<FilePart(Png, BytesData), TextPart(<<"b">>)>>)]>>
    /\ result = Returned(
           <<[role |-> "user", content |-> StringContent(<<"H", "i">>)],
             [role |-> "user",
              content |-> ArrayContent(
                  <<[type |-> "image_url",
                     image_url |-> [url |-> <<"data:", "image/", "png", ";base64,",
                                             "T", "W", "F", "u", "/", "w", "=", "=">>]],
                    [type |-> "text", text |-> <<"b">>]>>)]>>)

AssistantTurnShape(turn, message) ==
    LET calls == PartsOfType(turn.content.array, "tool-call") IN
    /\ message.role = "assistant"
    /\ message.content = JoinTexts(PartsOfType(turn.content.array, "text"))
    /\ IF calls = <<>> THEN message.tool_calls = None
       ELSE /\ message.tool_calls # None
            /\ Len(message.tool_calls[1]) = Len(calls)
            /\ \A k \in 1..Len(calls) :
                   /\ message.tool_calls[1][k].id = calls[k].toolCallId
                   /\ message.tool_calls[1][k].function.name = calls[k].toolName

TurnShape(prompt, messages, i) ==
    LET turn == prompt[i]
        first == MessagesBefore(prompt, i) + 1
    IN  IF turn.role = "tool"
        THEN LET results == PartsOfType(turn.content.array, "tool-result") IN
             \A k \in 1..Len(results) :
                 /\ messages[first + k - 1].role = "tool"
                 /\ messages[first + k - 1].tool_call_id = results[k].toolCallId
        ELSE /\ messages[first].role = turn.role
             /\ turn.role = "assistant" => AssistantTurnShape(turn, messages[first])

TurnsConverted ==
    /\ result.state = "returned"
    /\ Len(result.value) = MessagesBefore(call.prompt, Len(call.prompt) + 1)
    /\ \A i \in 1..Len(call.prompt) : TurnShape(call.prompt, result.value, i)

(* C18 as stated: the conversion keeps the order of the turns and gives one
   message per system, user and assistant turn and one tool message per
   tool-result part of a tool turn, none for other tool parts; an assistant
   message's content is the concatenation of its text parts in order and its
   tool_calls lists its tool-call parts in order, or is absent without any. *)
C18_EveryTurnConverted == ConvertDone => TurnsConverted

(* C18, amended: the above holds whenever the conversion returns, which it
   does exactly for the prompts none of whose user turns holds a file part
   with a media type outside image/; for the other prompts it throws and no
   message is produced for any turn. *)
C18_TurnsConvertedOrThrown ==
    ConvertDone =>
        IF \E i \in 1..Len(call.prompt) : HoldsNonImageFile(call.prompt[i])
        THEN result.state = "threw"
        ELSE TurnsConverted

C18_Witness ==
    /\ ConvertDone
    /\ result.state = "returned"
    /\ Len(call.prompt) = 2
    /\ call.prompt[1].role = "assistant"
    /\ Len(PartsOfType(call.prompt[1].content.array, "tool-call")) = 2
    /\ call.prompt[2].role = "tool"
    /\ Len(call.prompt[2].content.array) = 3
    /\ Len(result.value) = 3
    /\ result.value[1].content = <<"a", "b">>
    /\ result.value[1].tool_calls[1][2].function.arguments = <<"[", "1", ",", "[", "]", ",", "2", "0", "]">>
    /\ result.value[3].content = <<"Tool execution denied">>

----------------------------------------------------------------------------
(* Reading what a chat call returned *)

GenerateDone == call.op = "chat.doGenerate" /\ result.state = "returned"
StreamRequested == call.op = "chat.doStream" /\ result.state = "returned"

ResponseMessage == call.response.choices[1].message

NonEmpty(text) == text # None /\ text[1] # <<>>

PartTypes(content) == [k \in 1..Len(content) |-> content[k].type]

\* the part types the response calls for: reasoning, text, its tool calls
ResponseTypes(message) ==
    (IF NonEmpty(message.reasoning) THEN <<"reasoning">> ELSE <<>>)
    \o (IF NonEmpty(message.content) THEN <<"text">> ELSE <<>>)
    \o (IF message.tool_calls = None THEN <<>>
        ELSE [k \in 1..Len(message.tool_calls[1]) |-> "tool-call"])

ContentFollowsResponse ==
    LET content == result.value.content
        calls == PartsOfType(content, "tool-call")
    IN  /\ PartTypes(content) = ResponseTypes(ResponseMessage)
        /\ \A k \in 1..Len(calls) :
               /\ calls[k].toolName = ResponseMessage.tool_calls[1][k].function.name
               /\ calls[k].input = ResponseMessage.tool_calls[1][k].function.arguments
               /\ ResponseMessage.tool_calls[1][k].id # None =>
                      calls[k].toolCallId = ResponseMessage.tool_calls[1][k].id[1]

(* C14 as stated: the content doGenerate returns is the reasoning if the
   response has non-empty reasoning, then the text if the response text is
   non-empty, then one tool-call per entry of the response's tool_calls in
   response order; an empty or missing message content gives no text part. *)
C14_ContentOrder == GenerateDone => ContentFollowsResponse

\* the response text is a simulated tool call
TextIsToolCall ==
    /\ call.settings.simulate = Some("tool-calling")
    /\ NonEmpty(ResponseMessage.content)
    /\ parseJSON(ResponseMessage.content[1]) # None
    /\ extractToolCallData(parseJSON(ResponseMessage.content[1])[1]) # None

(* C14, amended: the above holds unless the model is configured with
   simulate = tool-calling and the response text parses as JSON from which a
   tool call can be extracted; then the content is the reasoning if non-empty,
   followed by exactly one tool-call built from the text, with no text part
   and none of the response's tool_calls. *)
C14_ContentOrderOrSimulated ==
    GenerateDone =>
        IF TextIsToolCall
        THEN PartTypes(result.value.content) =
                 (IF NonEmpty(ResponseMessage.reasoning) THEN <<"reasoning">> ELSE <<>>)
                 \o <<"tool-call">>
        ELSE ContentFollowsResponse

C14_Witness ==
    /\ GenerateDone
    /\ call.settings.simulate = Some("tool-calling")
    /\ ResponseMessage.content = Some(<<"H", "i">>)
    /\ PartTypes(result.value.content) = <<"reasoning", "text", "tool-call", "tool-call">>
    /\ result.value.content[2].text = <<"H", "i">>
    /\ result.value.content[3].toolCallId = "call-1"
    /\ result.value.content[4].toolName = "list"

Contains(text, piece) ==
    \E i \in 1..(Len(text) - Len(piece) + 1) :
        SubSeq(text, i, i + Len(piece) - 1) = piece

RequestSent == (call.op \in {"chat.doGenerate", "chat.doStream"}) /\ result.state = "returned"

(* C15: with simulate = tool-calling and at least one tool in the call, the
   messages of the request carry the simulated tool-calling instruction in a
   system message, whatever the prompt, a prompt without a system turn
   included. *)
C15_InstructionAlwaysSent ==
    ( /\ RequestSent
      /\ call.settings.simulate = Some("tool-calling")
      /\ call.options.tools # None
      /\ Len(call.options.tools[1]) >= 1 ) =>
        \E k \in 1..Len(result.value.request.body.messages) :
            LET message == result.value.request.body.messages[k] IN
            /\ message.role = "system"
            /\ Contains(message.content, ToolCallingInstruction)

\* the body doGenerate posts for the options of the call
GenerateBody == getArgs(call.modelId, call.settings, call.options, FALSE).value.args

(* C16: the request body holds response_format = {type: json_object} exactly
   when the call is doGenerate and responseFormat.type is json; a doStream
   body never holds response_format and is otherwise the doGenerate body for
   the same options with stream: true added. *)
C16_ResponseFormatOnlyWhenGenerating ==
    RequestSent =>
        LET body == result.value.request.body IN
        /\ body.response_format =
               IF call.op = "chat.doGenerate"
                  /\ call.options.responseFormat # None
                  /\ call.options.responseFormat[1].type = "json"
               THEN Some([type |-> "json_object"])
               ELSE None
        /\ call.op = "chat.doGenerate" => "stream" \notin DOMAIN body
        /\ call.op = "chat.doStream" =>
               /\ DOMAIN body = DOMAIN GenerateBody \cup {"stream"}
               /\ body.stream = TRUE
               /\ \A field \in DOMAIN GenerateBody \ {"response_format"} :
                      body[field] = GenerateBody[field]

C16_Witness ==
    /\ StreamRequested
    /\ call.options.responseFormat = Some([type |-> "json", schema |-> None])
    /\ call.options.tools = Some(<<TestTool>>)
    /\ result.value.request.body.response_format = None
    /\ result.value.request.body.stream = TRUE
    /\ result.value.request.body.tools # None
    /\ GenerateBody.response_format = Some([type |-> "json_object"])

----------------------------------------------------------------------------
(* Reading what speech getArgs returned *)

SpeechArgsReturned == call.op = "speech.getArgs" /\ result.state = "returned"

RequestedFormat == OrElse(call.options.outputFormat, "wav")

FormatWarnings ==
    SelectSeq(result.value.warnings,
              LAMBDA w : w.type = "unsupported" /\ w.feature = "outputFormat")

FormatRejected ==
    /\ result.value.requestBody.response_format = None
    /\ Len(FormatWarnings) = 1

(* C19 as stated: speech getArgs sets response_format to the requested
   outputFormat (wav when none is given) exactly when it is one of mp3, opus,
   aac, flac, wav, pcm, and then returns no outputFormat warning; for any
   other outputFormat it leaves response_format out of the body and returns
   exactly one warning of type unsupported with feature outputFormat. *)
C19_FormatSetOrWarned ==
    SpeechArgsReturned =>
        IF RequestedFormat \in {"mp3", "opus", "aac", "flac", "wav", "pcm"}
        THEN /\ result.value.requestBody.response_format = Some(RequestedFormat)
             /\ FormatWarnings = <<>>
        ELSE FormatRejected

(* C19, amended: as above for every outputFormat but the empty string; for
   the empty string getArgs leaves response_format out of the body and
   returns no warning at all. *)
C19_FormatSetOrWarnedUnlessEmpty ==
    SpeechArgsReturned =>
        IF RequestedFormat \in {"mp3", "opus", "aac", "flac", "wav", "pcm"}
        THEN /\ result.value.requestBody.response_format = Some(RequestedFormat)
             /\ FormatWarnings = <<>>
        ELSE IF RequestedFormat = ""
        THEN /\ result.value.requestBody.response_format = None
             /\ result.value.warnings = <<>>
        ELSE FormatRejected

C19_Witness ==
    /\ SpeechArgsReturned
    /\ call.options.outputFormat = Some("ogg")
    /\ result.value.requestBody.response_format = None
    /\ result.value.requestBody.speaker = Some("manisha")
    /\ result.value.warnings =
           <<[type |-> "unsupported", feature |-> "outputFormat",
              details |-> <<"Unsupported output format: ", "ogg",
                            ". Using mp3 instead.">>]>>

----------------------------------------------------------------------------
(* The opening of a stream *)

Usable(chunk) == chunk.success /\ "error" \notin DOMAIN chunk.value

UsableChunks == {m \in 1..Len(received) : Usable(received[m])}

\* the chunks before the first usable one: each of them left one error part
LeadingErrors ==
    IF UsableChunks = {} THEN Len(received)
    ELSE (CHOOSE m \in UsableChunks : \A n \in UsableChunks : m <= n) - 1

CallWarnings == getArgs(call.modelId, call.settings, call.options, TRUE).value.warnings

(* C20: stream-start, carrying the warnings computed for the call, among
   them the experimental-streaming warning, is emitted immediately followed
   by response-metadata exactly once, when the first chunk that is neither
   malformed nor a vendor error is processed, and never otherwise; both
   come before every text, reasoning and tool part. *)
C20_OpensOnce ==
    /\ Count("stream-start") = (IF UsableChunks = {} THEN 0 ELSE 1)
    /\ Count("response-metadata") = Count("stream-start")
    /\ \A k \in Positions("stream-start") :
           /\ k = LeadingErrors + 1
           /\ \A j \in 1..(k - 1) : events[j].type = "error"
           /\ k + 1 <= Len(events)
           /\ events[k + 1].type = "response-metadata"
           /\ events[k].warnings = CallWarnings
           /\ \E w \in 1..Len(events[k].warnings) :
                  events[k].warnings[w] =
                      [type |-> "other",
                       message |-> "Streaming is still experimental for Sarvam"]

C20_Witness ==
    /\ Len(received) = 3
    /\ ~Usable(received[1])
    /\ Usable(received[2])
    /\ Usable(received[3])
    /\ Len(events) >= 4
    /\ TypesOf(SubSeq(events, 1, 4)) =
           <<"error", "stream-start", "response-metadata", "text-start">>
    /\ Len(events[2].warnings) = 3
    /\ Count("stream-start") = 1

----------------------------------------------------------------------------
\* no empty delta is emitted, and a channel on which only null or empty
\* fragments arrived is not started and has neither a start nor an end part
EmptyFragmentsLeftOut ==
    /\ \A k \in Positions("text-delta") \cup Positions("reasoning-delta") :
           events[k].delta # <<>>
    /\ SentContent(received) = <<>> =>
           /\ ~textStarted
           /\ Count("text-start") = 0
           /\ Count("text-end") = 0
    /\ SentReasoning(received) = <<>> =>
           /\ ~reasoningStarted
           /\ Count("reasoning-start") = 0
           /\ Count("reasoning-end") = 0

(* C21: a chunk whose delta.content (or delta.reasoning) is null or the
   empty string emits nothing on that channel and does not start it: after
   every step no text-delta and no reasoning-delta has an empty delta, and
   as long as all the content (reasoning) fragments received are empty
   there is neither a text-start nor a text-end (reasoning-start nor
   reasoning-end) and the channel is not started. *)
C21_EmptyFragmentsAreSilent == [][EmptyFragmentsLeftOut']_vars

C21_Witness ==
    /\ pc = "closed"
    /\ Len(received) = 3
    /\ received[1] = ContentChunk(Some(<<>>), Some(<<>>))
    /\ received[2] = ContentChunk(None, Some(<<"r">>))
    /\ received[3] = ContentChunk(Some(<<>>), Some(<<>>))
    /\ TypesOf(events) = <<"stream-start", "response-metadata", "reasoning-start",
                           "reasoning-delta", "reasoning-end", "finish">>

----------------------------------------------------------------------------
\* the deltas of the tool-input-delta parts before position k that satisfy Is
DeltasBefore(k, Is(_)) ==
    LET Picked(e) == e.type = "tool-input-delta" /\ Is(e)
        parts == SelectSeq(SubSeq(events, 1, k - 1), Picked)
    IN [j \in 1..Len(parts) |-> parts[j].delta]

(* C22 as stated: the input of every tool-call part is the concatenation,
   in emission order, of the deltas of all tool-input-delta parts emitted
   with the same id before it.  Calls are accumulated by tool-call index,
   and two indexes may carry one id. *)
C22_InputIsDeltasOfId ==
    \A k \in Positions("tool-call") :
        LET SameId(e) == e.id = events[k].toolCallId
        IN events[k].input = Concat(DeltasBefore(k, SameId))

\* the input of every tool-call part is made of the deltas of its index
InputsAreDeltasOfIndex ==
    \A k \in Positions("tool-call") :
        LET SameIndex(e) == e.index = events[k].index
            SameId(e) == e.id = events[k].toolCallId
        IN /\ events[k].input = Concat(DeltasBefore(k, SameIndex))
           /\ \A j \in 1..(k - 1) :
                  (events[j].type = "tool-input-delta" /\ SameIndex(events[j]))
                      => SameId(events[j])
           /\ (\A i \in DOMAIN toolCalls :
                   toolCalls[i].id = events[k].toolCallId => i = events[k].index)
                  => events[k].input = Concat(DeltasBefore(k, SameId))

(* C22: after every step, the input of every tool-call part is the
   concatenation, in emission order, of the deltas of all tool-input-delta
   parts emitted for the same tool-call index before it; these all carry
   the call's id, and they are the parts with the same id whenever no other
   index carries that id. *)
C22_InputIsDeltasOfIndex == [][InputsAreDeltasOfIndex']_vars

C22_Witness ==
    /\ Len(received) = 3
    /\ \E k \in Positions("tool-call") :
           LET SameIndex(e) == e.index = events[k].index
               SameId(e) == e.id = events[k].toolCallId
           IN /\ Len(DeltasBefore(k, SameIndex)) = 2
              /\ Len(DeltasBefore(k, SameId)) = 3
              /\ events[k].input = <<"[", "]">>

----------------------------------------------------------------------------
\* the parts of one type in the content a doGenerate call returned
ReturnedParts(type) ==
    LET Is(part) == part.type = type
    IN SelectSeq(result.value.content, Is)

\* a chat doGenerate call under simulate = tool-calling that returned
SimulatedGenerateReturned ==
    /\ call.op = "chat.doGenerate"
    /\ call.settings.simulate = Some("tool-calling")
    /\ result.state = "returned"

(* C23: when chat doGenerate has received its response under simulate =
   tool-calling and the response text parses as JSON from which a tool call
   can be extracted, the returned content has exactly one tool-call part,
   built from that text, and no text part, whatever native tool_calls the
   response has; otherwise the content has the response text as its text
   part (none for a null or empty text) and one tool-call part per native
   tool_call, in order, with the same id, name and arguments. *)
C23_SimulatedToolCallReplaces ==
    SimulatedGenerateReturned =>
        LET message == call.response.choices[1].message
            text == message.content
            native == OrElse(message.tool_calls, <<>>)
            calls == ReturnedParts("tool-call")
        IN  IF TextIsToolCall
            THEN LET newTool == extractToolCallData(parseJSON(text[1])[1])[1] IN
                 /\ calls = <<[type |-> "tool-call", toolCallId |-> newTool.toolCallId,
                               toolName |-> newTool.toolName, input |-> newTool.input]>>
                 /\ ReturnedParts("text") = <<>>
            ELSE /\ ReturnedParts("text") =
                        (IF text # None /\ text[1] # <<>>
                         THEN <<[type |-> "text", text |-> text[1]]>> ELSE <<>>)
                 /\ Len(calls) = Len(native)
                 /\ \A k \in 1..Len(native) :
                        /\ native[k].id # None => calls[k].toolCallId = native[k].id[1]
                        /\ calls[k].toolName = native[k].function.name
                        /\ calls[k].input = native[k].function.arguments

C23_Witness ==
    /\ SimulatedGenerateReturned
    /\ call.response.choices[1].message.content = Some(Stringify(CityCall))
    /\ call.response.choices[1].message.tool_calls # None
    /\ Len(call.response.choices[1].message.tool_calls[1]) = 2
    /\ ReturnedParts("text") = <<>>
    /\ ReturnedParts("tool-call") =
           <<[type |-> "tool-call", toolCallId |-> "gen-3", toolName |-> <<"weather">>,
              input |-> Stringify(JObj(<<[key |-> <<"city">>,
                                          value |-> JStr(<<"Pune">>)]>>))]>>

----------------------------------------------------------------------------
\* a translation doGenerate call that has ended
TranslationDone == call.op = "translation.doGenerate" /\ result # Pending

\* the configurations the translation model rejects
InvalidConfiguration(settings) ==
    \/ settings.from = settings.to
    \/ /\ OrElse(settings.model, "mayura:v1") = "sarvam-translate:v1"
       /\ \/ OrElse(settings.mode, "formal") # "formal"
          \/ OrElse(settings.from, "auto") = "auto"

ConfigurationMessages ==
    {"Source and target languages code must be different.",
     "Sarvam 'sarvam-translate:v1' only support mode formal.",
     "Sarvam 'sarvam-translate:v1' requires source language code."}

\* the call threw one of the configuration errors and made no request
RejectedBeforeRequest ==
    /\ result.state = "threw"
    /\ result.error \in ConfigurationMessages
    /\ result.requests = <<>>

\* the call made exactly one request, a POST to /translate
PostedOnce ==
    /\ Len(result.requests) = 1
    /\ result.requests[1].method = "POST"
    /\ result.requests[1].path = "/translate"

\* the conversion of the prompt throws
UnconvertiblePrompt ==
    convertToSarvamChatMessages(call.options.prompt, None).state = "threw"

(* C24 as stated: the translation model throws from getArgs before any
   request when from equals to, or when the model is sarvam-translate:v1 and
   the mode is not formal or the source is auto; every other configuration
   proceeds to exactly one POST to /translate. *)
C24_InvalidOrPosted ==
    TranslationDone =>
        IF InvalidConfiguration(call.settings) THEN RejectedBeforeRequest
        ELSE PostedOnce

(* C24, amended: an invalid configuration is rejected as above; every other
   configuration proceeds to exactly one POST to /translate, except when the
   conversion of the prompt throws, in which case getArgs throws that error
   and no request is made either. *)
C24_InvalidOrUnconvertibleOrPosted ==
    TranslationDone =>
        IF InvalidConfiguration(call.settings) THEN RejectedBeforeRequest
        ELSE IF UnconvertiblePrompt
        THEN /\ result.state = "threw"
             /\ result.error = "UnsupportedFunctionalityError"
             /\ result.requests = <<>>
        ELSE PostedOnce

C24_Witness ==
    /\ TranslationDone
    /\ call.settings.model = Some("sarvam-translate:v1")
    /\ call.settings.from = Some("en-IN")
    /\ call.settings.mode = None
    /\ ~UnconvertiblePrompt
    /\ ~call.reply.ok
    /\ result.state = "threw"
    /\ PostedOnce
    /\ result.requests[1].body.source_language_code = "en-IN"
    /\ result.requests[1].body.input = <<"H", "i", "\n", "B", "y", "e">>

----------------------------------------------------------------------------
\* fragment p of those upstream sent is the first of its index and lacks
\* type = function, an id or a name
RejectedFirstFragment(sent, p) ==
    /\ \A q \in 1..(p - 1) : sent[q].index # sent[p].index
    /\ \/ sent[p].type # Some("function")
       \/ sent[p].id = None
       \/ sent[p].function.name = None

\* a step that takes a chunk with a rejected first fragment makes the stream
\* fail, and a failed stream takes no step
RejectedFragmentFails ==
    /\ pc # "errored"
    /\ received' # received =>
           LET before == SentFragments(received)
               sent == before \o SentFragments(<<received'[Len(received')]>>)
           IN  \A p \in (Len(before) + 1)..Len(sent) :
                   RejectedFirstFragment(sent, p) =>
                       /\ pc' = "errored"
                       /\ \A k \in 1..Len(events') :
                              /\ events'[k].type # "finish"
                              /\ events'[k].type \in ToolTypes
                                     => events'[k].index # sent[p].index

(* C25: a step in which upstream sends, as the first fragment of a
   tool-call index, a fragment that lacks type = function, an id or a
   function name makes the transformer throw: there is no tool part for
   that index and no finish part, the stream has failed, and a failed
   stream takes no further step, so that no finish part follows. *)
C25_RejectedFirstFragmentFails == [][RejectedFragmentFails]_vars

C25_Witness ==
    /\ Len(received) = 2
    /\ received[1] = ContentChunk(Some(<<"a">>), None)
    /\ received[2] = ToolChunk(<<Opening(0, "x", "f", Some(<<"[">>)),
                                Fragment(1, None, Some("function"), Some("g"),
                                         Some(<<"[">>))>>)
    /\ pc = "errored"
    /\ TypesOf(events) = <<"stream-start", "response-metadata", "text-start",
                           "text-delta", "tool-input-start", "tool-input-delta">>
    /\ ToolPartsOf(1) = <<>>

----------------------------------------------------------------------------
\* every tool part emitted so far, in emission order
ToolParts == SelectSeq(events, LAMBDA e : e.type \in ToolTypes)

\* the tool calls whose accumulated arguments are not parsable JSON
UnparsedCalls ==
    {i \in DOMAIN toolCalls : ~isParsableJson(toolCalls[i].function.arguments)}

\* the tool parts of an index are its tool-input-start followed by deltas only
StartAndDeltasOnly(index) ==
    LET parts == ToolPartsOf(index) IN
    /\ Len(parts) >= 1
    /\ parts[1].type = "tool-input-start"
    /\ \A k \in 2..Len(parts) : parts[k].type = "tool-input-delta"

(* C26: the step that closes the stream emits no tool part: a tool call
   whose accumulated arguments never became parsable JSON is left with its
   tool-input-start and deltas and without tool-input-end and tool-call,
   and the step still emits the finish part, as the last part. *)
C26_CloseLeavesOpenCalls ==
    [][ pc' = "closed" =>
          /\ ToolParts' = ToolParts
          /\ \A i \in UnparsedCalls' : StartAndDeltasOnly(i)'
          /\ Len(events') > Len(events)
          /\ events'[Len(events')].type = "finish"
          /\ \A k \in 1..Len(events) : events[k].type # "finish" ]_vars

C26_Witness ==
    /\ pc = "closed"
    /\ received = <<ToolChunk(<<Opening(0, "x", "f", Some(<<"[">>))>>),
                    ToolChunk(<<Continuation(0, Some(<<>>))>>)>>
    /\ UnparsedCalls = {0}
    /\ TypesOf(events) = <<"stream-start", "response-metadata", "tool-input-start",
                           "tool-input-delta", "tool-input-delta", "finish">>

----------------------------------------------------------------------------
(* A stream run alone: transform and flush applied to the locals of one    *)
(* call, chunk after chunk, with no other stream around.                   *)

AloneAfterError(st, chunk) ==
    [st EXCEPT !.finishReason = ErrorFinishReason,
               !.events = Append(@, ErrorPart(chunk)),
               !.received = Append(@, chunk)]

AloneAfterValue(st, chunk) ==
    LET value == chunk.value
        choice == FirstChoice(value)
        delta == DeltaOf(choice)
        tools == IF delta = None
                 THEN ToolCallsAfter(st.toolCalls, Delta(None, None, None))
                 ELSE ToolCallsAfter(st.toolCalls, delta[1])
    IN  [st EXCEPT
           !.isFirstChunk = FALSE,
           !.usage = UsageAfter(@, value),
           !.finishReason = FinishReasonAfter(@, choice),
           !.reasoningStarted = @ \/ (delta # None /\ HasReasoning(delta[1])),
           !.textStarted = @ \/ (delta # None /\ HasContent(delta[1])),
           !.toolCalls = tools.toolCalls,
           !.events = @ \o FirstChunkParts(st.isFirstChunk)
                        \o (IF delta = None THEN <<>>
                            ELSE ReasoningParts(delta[1], st.reasoningStarted,
                                                st.reasoningId)
                                 \o TextParts(delta[1], st.textStarted, st.textId)
                                 \o tools.out),
           !.received = Append(@, chunk),
           !.pc = IF tools.thrown THEN "errored" ELSE "open"]

RECURSIVE AloneAfter(_, _)
AloneAfter(st, chunks) ==
    IF chunks = <<>> THEN st
    ELSE AloneAfter(IF IsErrorChunk(Head(chunks)) THEN AloneAfterError(st, Head(chunks))
                    ELSE AloneAfterValue(st, Head(chunks)),
                    Tail(chunks))

AloneClosed(st) ==
    [st EXCEPT
       !.events = @ \o (IF st.reasoningStarted
                        THEN <<[type |-> "reasoning-end", id |-> st.reasoningId]>>
                        ELSE <<>>)
                    \o (IF st.textStarted
                        THEN <<[type |-> "text-end", id |-> st.textId]>> ELSE <<>>)
                    \o <<[type |-> "finish", finishReason |-> st.finishReason,
                          usage |-> st.usage]>>,
       !.pc = "closed"]

\* the locals and events of a call that took these chunks alone and, if
\* closed, was then flushed
RunAlone(newTextId, newReasoningId, chunks, closed) ==
    LET st == AloneAfter(InitialClosure(newTextId, newReasoningId), chunks)
    IN IF closed THEN AloneClosed(st) ELSE st

\* the two streams, whichever the runtime serves next
BothStreams == {ActiveClosure, other}

(* C27: whatever the interleaving of the two streams' chunks, each stream's
   event sequence, and with it every accumulator of its call, is the one
   the call reaches when it takes the same chunks alone. *)
C27_StreamsAreIndependent ==
    \A st \in BothStreams :
        st = RunAlone(st.textId, st.reasoningId, st.received, st.pc = "closed")

C27_Witness ==
    /\ textId = "gen-4"
    /\ received = <<ToolChunk(<<Continuation(0, Some(<<"]">>))>>)>>
    /\ pc = "errored"
    /\ TypesOf(events) = <<"stream-start", "response-metadata">>
    /\ other.textId = "gen-1"
    /\ other.received = <<ToolChunk(<<Opening(0, "x", "f", Some(<<"[">>))>>),
                          ContentChunk(Some(<<"a">>), Some(<<"s">>))>>
    /\ other.pc = "closed"
    /\ TypesOf(other.events) =
           <<"stream-start", "response-metadata", "tool-input-start",
             "tool-input-delta", "reasoning-start", "reasoning-delta",
             "text-start", "text-delta", "reasoning-end", "text-end", "finish">>

====
